---------------------------- MODULE Spec2Model ----------------------------
(***************************************************************************)
(* A model of the conversation / tool-orchestration engine of micro-ai-ts: *)
(*   - class Micro: chat()/invoke(), stream(), the tool-call loop,         *)
(*     executeTool / handleToolCalls and the observer callbacks;           *)
(*   - class MCPClient: the line-delimited JSON-RPC client (requests,      *)
(*     correlation by id, per-request timeout, disconnect / process exit). *)
(* SpecMicro runs one Micro client, SpecMCP one MCPClient.                 *)
(***************************************************************************)
EXTENDS Integers, Sequences, FiniteSets, TLC

\* ------------------------------------------------------------------ bounds
\* invocations (chat()/stream() calls) made on one client
MaxTurns == 2
\* tool calls the model server issues over the life of one client
MaxToolCalls == 2
\* largest maxToolInterations option a client is constructed with
MaxIter == 3
\* partial (content / reasoning) events of one streamed round
MaxPartials == 1
\* requests one MCPClient sends (the largest messageId)
MaxRequests == 3
\* child processes one MCPClient spawns
MaxSpawns == 2
\* connect() / listTools() / callTool() calls made on one MCPClient
MaxApiCalls == 2
\* SSE lines in the body of one streamed response
MaxLines == 3
\* most pieces of the body one reader.read() delivers
MaxChunk == 4
\* most public methods a caller calls on one client
MaxOps == 3
\* largest limit passed to limitMessages
MaxLimit == 2
\* most pieces (tags, words, blanks) in the content of a final message
MaxContent == 4
\* most request bodies built between two changes of the client
MaxBuilds == 2
\* most calls of createMCPTools / createMCPTool
MaxCreates == 2

VARIABLES
  \* ---- class Micro
  messages,            \* this.messages: the conversation log
  maxToolInterations,  \* this.maxToolInterations
  pc,                  \* where the running invocation is suspended
  mode,                \* "chat" (chat()/invoke()) or "stream" (stream())
  iteration,           \* streamWithToolHandling: let iteration
  toolExecutions,      \* handleToolCalls: the promises of toolCalls.map(...)
  completionOrder,     \* indices of the latest toolExecutions in the order they settled
  nextCallId,          \* the next tool-call id the model server issues
  turns,               \* invocations started so far
  round,               \* request rounds of the running invocation
  roundPartials,       \* partial events emitted by the running streamed round
  roundCalls,          \* per finished round: the number of tool calls it carried
  requests,            \* requests sent by the running invocation (httpClient calls)
  yielded,             \* events the caller of stream() received, in order
  onCompleteCalls,     \* onComplete notifications of the running invocation
  onErrorCalls,        \* onError notifications of the running invocation
  onToolCallCalls,     \* onToolCall notifications, per tool-call id
  outcome,             \* how the invocation ended, "none" while it runs
  errorKind,           \* what made it fail, "none" otherwise
  error,               \* what the failed invocation rejected / threw with
  onErrorArgs,         \* the arguments of the onError calls of the invocation
  sentLogs,            \* body.messages of each request of the invocation
  onMessageCalls       \* the length of the log at each onMessage call

microVars == <<messages, maxToolInterations, pc, mode, iteration, toolExecutions,
               completionOrder, nextCallId, turns, round, roundPartials,
               roundCalls, requests, yielded, onCompleteCalls, onErrorCalls,
               onToolCallCalls, outcome, errorKind, error, onErrorArgs,
               sentLogs, onMessageCalls>>

\* the fields of an invocation, which the conversation methods leave alone
invocationVars == <<maxToolInterations, pc, mode, iteration, toolExecutions,
                    completionOrder, nextCallId, turns, round, roundPartials,
                    roundCalls, requests, yielded, onCompleteCalls, onErrorCalls,
                    onToolCallCalls, outcome, errorKind, error, onErrorArgs,
                    sentLogs>>

VARIABLES
  \* ---- class MCPClient
  process,             \* this.process: 0 for null, else the pid of the child
  messageId,           \* this.messageId
  pendingRequests,     \* this.pendingRequests: id -> the promise its closures settle
  buffer,              \* this.buffer: the unfinished line read so far
  isInitialized,       \* this.isInitialized
  timers,              \* ids whose setTimeout of sendRequest has not fired yet
  promises,            \* the promise sendRequest returned for each id
  children,            \* pids of the child processes that are running
  inbox,               \* requests a running child has read and not answered
  exitPending,         \* pids whose 'exit' event has not been delivered yet
  apiCalls,            \* the connect() / listTools() / callTool() calls made
  spawned              \* child processes spawned so far

mcpVars == <<process, messageId, pendingRequests, buffer, isInitialized, timers,
             promises, children, inbox, exitPending, apiCalls, spawned>>

VARIABLES
  \* ---- Micro.processStream, one call
  sseLines,            \* the lines of the response body, in order
  lastLineEnded,       \* whether the body ends with a newline
  offset,              \* how much of the body reader.read() has delivered
  streamState,         \* the locals of processStream and what it has done so far
  streamPc             \* "idle", "reading", "ended" (terminal chunk yielded) or "failed"

streamVars == <<sseLines, lastLineEnded, offset, streamState, streamPc>>

VARIABLES
  \* ---- class Micro: the fields of the client outside an invocation
  client,              \* the options-derived fields: model, capabilities, reasoning, ...
  parsedSystemPrompt,  \* this.parsedSystemPrompt ("" when there is none)
  lastCall,            \* the last public method called, its argument, the log before it
  opsDone,             \* how many methods the caller has called
  requestBodies,       \* the bodies buildRequestBody returned since the last change
  finalMessage,        \* the message extractReasoning/buildResponse is given
  extracted            \* what they made of it

clientVars == <<client, parsedSystemPrompt, lastCall, opsDone, requestBodies,
                finalMessage, extracted>>

VARIABLES
  \* ---- createMCPTools / createMCPTool and the registry of their clients
  activeMCPClients,    \* the module's list of clients to clean up
  createCalls,         \* the calls made, each with the client it constructed
  running              \* the clients whose child process runs

registryVars == <<activeMCPClients, createCalls, running>>

vars == <<microVars, mcpVars, streamVars, clientVars, registryVars>>

\* processStream's locals as declared: fullContent, reasoning, role, buffer,
\* tokensUsed (0 for undefined), toolCalls; out is what the call has done
StartState ==
  [fullContent |-> <<>>, reasoning |-> <<>>, role |-> "assistant", buffer |-> <<>>,
   tokensUsed |-> 0, toolCalls |-> <<>>, out |-> <<>>]

\* no processStream call is running
StreamIdle ==
  /\ sseLines = <<>>
  /\ lastLineEnded = TRUE
  /\ offset = 0
  /\ streamState = StartState
  /\ streamPc = "idle"

\* ------------------------------------------------- class Micro, construction
\* Strings whose characters the code looks at are sequences of characters.
\* String.prototype.toLowerCase on the letters A-Z
LowerOf ==
  [c \in {"A", "B", "C", "D", "E", "F", "G", "H", "I", "J", "K", "L", "M", "N",
          "O", "P", "Q", "R", "S", "T", "U", "V", "W", "X", "Y", "Z"} |->
     CASE c = "A" -> "a" [] c = "B" -> "b" [] c = "C" -> "c" [] c = "D" -> "d"
       [] c = "E" -> "e" [] c = "F" -> "f" [] c = "G" -> "g" [] c = "H" -> "h"
       [] c = "I" -> "i" [] c = "J" -> "j" [] c = "K" -> "k" [] c = "L" -> "l"
       [] c = "M" -> "m" [] c = "N" -> "n" [] c = "O" -> "o" [] c = "P" -> "p"
       [] c = "Q" -> "q" [] c = "R" -> "r" [] c = "S" -> "s" [] c = "T" -> "t"
       [] c = "U" -> "u" [] c = "V" -> "v" [] c = "W" -> "w" [] c = "X" -> "x"
       [] c = "Y" -> "y" [] OTHER -> "z"]

ToLowerCase(str) ==
  [i \in 1..Len(str) |-> IF str[i] \in DOMAIN LowerOf THEN LowerOf[str[i]] ELSE str[i]]

\* String.prototype.includes for a non-empty search string
Includes(str, search) ==
  \E i \in 1..(Len(str) - Len(search) + 1) :
    SubSeq(str, i, i + Len(search) - 1) = search

\* model ids a caller may configure (after stripModelName)
ModelNames ==
  { <<"G", "P", "T", "-", "5">>,
    <<"g", "p", "t", "-", "4", "o">>,
    <<"o", "3", "-", "m", "i", "n", "i">>,
    <<"g", "e", "m", "i", "n", "i", "-", "2", ".", "5">>,
    <<"g", "l", "m", "-", "4", ".", "6">>,
    <<"q", "w", "q">>,
    <<"o", "1", "-", "g", "l", "m", "-", "4", ".", "5">>,
    <<"l", "l", "a", "m", "a">> }

\* detectModelCapabilities looking at the identifier as it is written
DetectModelCapabilitiesCaseSensitive(model) ==
  LET modelLower == model
      isOpenAI5 == Includes(modelLower, <<"g", "p", "t", "-", "5">>)
      isOpenAIReasoning ==
        \/ \E v \in {<<"o", "1">>, <<"o", "3">>, <<"o", "4">>} : Includes(modelLower, v)
        \/ isOpenAI5
      isGemini25Reasoning ==
        Includes(modelLower, <<"g", "e", "m", "i", "n", "i", "-", "2", ".", "5">>)
      isGLMReasoning == Includes(modelLower, <<"g", "l", "m", "-", "4", ".">>)
      isQWQ == Includes(modelLower, <<"q", "w", "q">>)
      isDeepseekReasoning ==
        \/ Includes(modelLower, <<"d", "e", "e", "p", "s", "e", "e", "k", "-",
                                  "r", "e", "a", "s", "o", "n", "e", "r">>)
        \/ Includes(modelLower, <<"d", "e", "e", "p", "s", "e", "e", "k", "-", "r", "1">>)
      isQwen3 == Includes(modelLower, <<"q", "w", "e", "n", "3">>)
      isMinimaxM2 == Includes(modelLower, <<"-", "m", "2">>)
  IN [isOpenAI5 |-> isOpenAI5,
      isOpenAIReasoning |-> isOpenAIReasoning,
      isGemini25Reasoning |-> isGemini25Reasoning,
      isGLMReasoning |-> isGLMReasoning,
      isQWQ |-> isQWQ,
      isDeepseekReasoning |-> isDeepseekReasoning,
      isQwen3 |-> isQwen3,
      isMinimaxM2 |-> isMinimaxM2,
      isReasoningModel |->
        \/ isGemini25Reasoning \/ isOpenAIReasoning \/ isGLMReasoning \/ isQWQ
        \/ isDeepseekReasoning \/ isQwen3 \/ isMinimaxM2]

\* detectModelCapabilities(): the family flags of this.model
DetectModelCapabilities(model) ==
  LET modelLower == ToLowerCase(model)
      isOpenAI5 == Includes(modelLower, <<"g", "p", "t", "-", "5">>)
      isOpenAIReasoning ==
        \/ \E v \in {<<"o", "1">>, <<"o", "3">>, <<"o", "4">>} : Includes(modelLower, v)
        \/ isOpenAI5
      isGemini25Reasoning ==
        Includes(modelLower, <<"g", "e", "m", "i", "n", "i", "-", "2", ".", "5">>)
      isGLMReasoning == Includes(modelLower, <<"g", "l", "m", "-", "4", ".">>)
      isQWQ == Includes(modelLower, <<"q", "w", "q">>)
      isDeepseekReasoning ==
        \/ Includes(modelLower, <<"d", "e", "e", "p", "s", "e", "e", "k", "-",
                                  "r", "e", "a", "s", "o", "n", "e", "r">>)
        \/ Includes(modelLower, <<"d", "e", "e", "p", "s", "e", "e", "k", "-", "r", "1">>)
      isQwen3 == Includes(modelLower, <<"q", "w", "e", "n", "3">>)
      isMinimaxM2 == Includes(modelLower, <<"-", "m", "2">>)
  IN [isOpenAI5 |-> isOpenAI5,
      isOpenAIReasoning |-> isOpenAIReasoning,
      isGemini25Reasoning |-> isGemini25Reasoning,
      isGLMReasoning |-> isGLMReasoning,
      isQWQ |-> isQWQ,
      isDeepseekReasoning |-> isDeepseekReasoning,
      isQwen3 |-> isQwen3,
      isMinimaxM2 |-> isMinimaxM2,
      isReasoningModel |->
        \/ isGemini25Reasoning \/ isOpenAIReasoning \/ isGLMReasoning \/ isQWQ
        \/ isDeepseekReasoning \/ isQwen3 \/ isMinimaxM2]

\* An option or field that may be undefined is <<>> when it is and <<v>>
\* when it holds v.  x ?? d
OrElse(x, d) == IF x = <<>> THEN d ELSE x[1]

\* the MicroOptions a caller may pass: tools is a list of tool names,
\* override a record of body keys
OptionSets ==
  [model : ModelNames,
   reasoning : {<<>>, <<TRUE>>, <<FALSE>>},
   reasoning_effort : {<<>>, <<"low">>},
   maxTokens : {<<>>, <<0>>, <<100>>},
   temperature : {<<>>, <<0>>},
   tools : {<<>>, << <<"calc">> >>},
   tool_choice : {<<>>, <<"auto">>},
   override : {<<>>, <<[max_tokens |-> 5]>>, <<[reasoning_effort |-> "high"]>>},
   stream : {<<>>, <<TRUE>>}]

\* new Micro() without options, the model being Defaults.model
DefaultOptions ==
  [model |-> <<"g", "p", "t", "-", "4", "o">>, reasoning |-> <<>>,
   reasoning_effort |-> <<>>, maxTokens |-> <<>>, temperature |-> <<>>,
   tools |-> <<>>, tool_choice |-> <<>>, override |-> <<>>, stream |-> <<>>]

\* the fields the constructor derives from the options
NewClient(options) ==
  LET capabilities == DetectModelCapabilities(options.model)
      reasoning == OrElse(options.reasoning, capabilities.isReasoningModel)
  IN [model |-> options.model,
      streamEnabled |-> OrElse(options.stream, FALSE),
      capabilities |-> capabilities,
      reasoning |-> reasoning,
      reasoning_effort |->
        IF reasoning THEN <<OrElse(options.reasoning_effort, "medium")>> ELSE <<>>,
      maxTokens |-> options.maxTokens,
      temperature |-> options.temperature,
      tools |-> options.tools,
      tool_choice |-> options.tool_choice,
      override |-> options.override]

\* no public method called yet
NoCall == [op |-> "new", limit |-> 0, before |-> <<>>]

\* no final message is being turned into a Response
NoExtraction == [done |-> FALSE, reasoning |-> <<>>, content |-> <<>>]

\* no system prompt configured, no public method called
ConversationIdle ==
  /\ parsedSystemPrompt = ""
  /\ lastCall = NoCall
  /\ opsDone = 0

\* no response is being built
ReasoningIdle ==
  /\ finalMessage = [content |-> <<>>, reasoning |-> <<>>, reasoning_content |-> <<>>]
  /\ extracted = NoExtraction

\* a client built without options that nobody calls
ClientIdle ==
  /\ client = NewClient(DefaultOptions)
  /\ ConversationIdle
  /\ requestBodies = <<>>
  /\ ReasoningIdle

\* the module as loaded: const activeMCPClients = [], nothing created
RegistryIdle ==
  /\ activeMCPClients = <<>>
  /\ createCalls = <<>>
  /\ running = {}

\* the state of a newly constructed MCPClient
McpInit ==
  /\ process = 0
  /\ messageId = 0
  /\ pendingRequests = <<>>
  /\ buffer = <<>>
  /\ isInitialized = FALSE
  /\ timers = {}
  /\ promises = <<>>
  /\ children = {}
  /\ inbox = {}
  /\ exitPending = {}
  /\ apiCalls = <<>>
  /\ spawned = 0

\* ------------------------------------------------------------ tools, values
\* names a model may ask for; only RegisteredTools are in this.tools
ToolNames == {"calc", "ghost"}
RegisteredTools == {"calc"}
\* serialized-arguments strings a model may send
ArgStrings == {"{}", "{"}
\* the (name, arguments) pairs a model asks for: a registered tool with
\* well-formed and with malformed arguments, and a tool nobody registered
CallKinds == {<<"calc", "{}">>, <<"calc", "{">>, <<"ghost", "{}">>}

\* JSON.parse(toolArguments) succeeds
JSONParses(s) == s = "{}"

\* what a handler does once started
HandlerOutcomes == {"object", "throw"}

\* `Tool "${toolName}" not found`
NotFoundMessage(toolName) == <<"Tool \"", toolName, "\" not found">>

\* `Error executing tool "${toolName}": ${error.message}`
ExecErrorMessage(toolName, errorMessage) ==
  <<"Error executing tool \"", toolName, "\": ", errorMessage>>

\* JSON.stringify of a handler's (object) result
JSONStringify(value) == <<"{\"result\":", value, "}">>

\* typeof result === 'string' ? result : JSON.stringify(result)
ToolContent(result) ==
  IF result.type = "string" THEN result.text ELSE JSONStringify(result.value)

\* the value executeTool returns once a started handler has settled
HandlerResult(toolName, how) ==
  IF how = "object"
  THEN [type |-> "object", value |-> "42"]
  ELSE [type |-> "string", text |-> ExecErrorMessage(toolName, "boom")]

\* executeTool with JSON.parse outside its try block: malformed arguments
\* reject the executeTool promise instead of becoming an error string
ExecuteToolStartParseUncaught(toolCall) ==
  IF toolCall.name \notin RegisteredTools
  THEN [state |-> "done", how |-> "not_found", notified |-> 1,
        result |-> [type |-> "string", text |-> NotFoundMessage(toolCall.name)]]
  ELSE IF ~JSONParses(toolCall.arguments)
  THEN [state |-> "rejected", how |-> "parse_error", notified |-> 0,
        result |-> [type |-> "string", text |-> <<>>]]
  ELSE [state |-> "running", how |-> "running", notified |-> 0,
        result |-> [type |-> "string", text |-> <<>>]]

\* the part of executeTool that runs before its first await:
\* tool lookup, JSON.parse, and the call of tool.execute
ExecuteToolStart(toolCall) ==
  IF toolCall.name \notin RegisteredTools
  THEN [state |-> "done", how |-> "not_found", notified |-> 1,
        result |-> [type |-> "string", text |-> NotFoundMessage(toolCall.name)]]
  ELSE IF ~JSONParses(toolCall.arguments)
  THEN [state |-> "done", how |-> "parse_error", notified |-> 1,
        result |-> [type |-> "string",
                    text |-> ExecErrorMessage(toolCall.name, "Unexpected end of JSON input")]]
  ELSE [state |-> "running", how |-> "running", notified |-> 0,
        result |-> [type |-> "string", text |-> <<>>]]

\* executeTool notifying in the try block and again in the catch block when
\* the handler throws
ExecuteToolSettleNotifiesTwice(toolCall, how) ==
  [state |-> "done", how |-> how, notified |-> IF how = "throw" THEN 2 ELSE 1,
   result |-> HandlerResult(toolCall.name, how)]

\* the rest of executeTool: the handler returned or threw; onToolCall is
\* notified once and the result (or the error string) is returned
ExecuteToolSettle(toolCall, how) ==
  [state |-> "done", how |-> how, notified |-> 1,
   result |-> HandlerResult(toolCall.name, how)]

\* ------------------------------------------------------------------ messages
UserMessage ==
  [role |-> "user", content |-> <<"prompt">>, tool_calls |-> <<>>,
   tool_call_id |-> 0, name |-> ""]

AssistantMessage(calls) ==
  [role |-> "assistant", content |-> IF calls = <<>> THEN <<"answer">> ELSE <<>>,
   tool_calls |-> calls, tool_call_id |-> 0, name |-> ""]

\* the object the async callback of handleToolCalls returns
ToolMessage(toolCall, result) ==
  [role |-> "tool", content |-> ToolContent(result), tool_calls |-> <<>>,
   tool_call_id |-> toolCall.id, name |-> toolCall.name]

\* the tool calls of the assistant message handleToolCalls was given
LastToolCalls == messages[Len(messages)].tool_calls

\* handleToolCalls pushing each result as its executeTool settles
ToolResultsInCompletionOrder(calls, execs) ==
  [k \in 1..Len(calls) |->
     ToolMessage(calls[completionOrder[k]], execs[completionOrder[k]].result)]

\* handleToolCalls putting every result in front of the ones before it
ToolResultsReversed(calls, execs) ==
  [i \in 1..Len(calls) |->
     ToolMessage(calls[Len(calls) + 1 - i], execs[Len(calls) + 1 - i].result)]

\* await Promise.all(toolExecutions): the results in call order
ToolResults(calls, execs) ==
  [i \in 1..Len(calls) |-> ToolMessage(calls[i], execs[i].result)]

\* the tool-call lists a model can answer a round with: n calls with fresh ids
CallLists(n) ==
  {[i \in 1..n |-> [id |-> nextCallId + i - 1, name |-> f[i][1], arguments |-> f[i][2]]] :
     f \in [1..n -> CallKinds]}


\* ------------------------------------------------------------------ errors
\* an error value: type is "" for an Error that was not classified, response
\* is error.response.status (0 when there is no response)
ErrorValue(type, message, status, code, response) ==
  [type |-> type, message |-> message, status |-> status, code |-> code,
   response |-> response]

NoError == ErrorValue("", "", 0, "", 0)

\* the ways request() of http.ts fails
TransportFailures == {"timeout", "http", "network", "body"}

\* what request() throws: the AbortError turned into ECONNABORTED, the
\* HTTP_ERROR of a response that is not ok, and what fetch or response.json()
\* threw, passed on as it is
HttpError(failure) ==
  CASE failure = "timeout" -> ErrorValue("", "Request timeout", 0, "ECONNABORTED", 0)
    [] failure = "http" -> ErrorValue("", "HTTP error! status: 500", 0, "HTTP_ERROR", 500)
    [] failure = "network" -> ErrorValue("", "fetch failed", 0, "", 0)
    [] OTHER -> ErrorValue("", "Unexpected end of JSON input", 0, "", 0)

\* buildErrorResponse classifying by the message instead of the code
BuildErrorByMessage(e) ==
  ErrorValue(IF e.message = "Request timeout" \/ e.message = "fetch failed"
             THEN "timeout" ELSE "api_error",
             e.message, e.response, e.code, 0)

\* buildErrorResponse(error, latencyMs).error
BuildErrorResponse(e) ==
  ErrorValue(IF e.code = "ECONNABORTED" THEN "timeout" ELSE "api_error",
             e.message, e.response, e.code, 0)

\* new Error('Max tool call iterations reached')
MaxIterationsError == ErrorValue("", "Max tool call iterations reached", 0, "", 0)

\* what reader.read() rejects with
StreamReadError == ErrorValue("", "terminated", 0, "", 0)

\* ------------------------------------------------------- the streaming loop
\* the loop guard off by one: while (iteration <= this.maxToolInterations)
LoopContinuesInclusive(it, max) == it <= max

\* streamWithToolHandling: while (iteration < this.maxToolInterations)
LoopContinues(it, max) == it < max

\* streamWithToolHandling, after the loop: if (iteration >= this.maxToolInterations)
PostLoopThrows(it, max) == it >= max

\* streamWithToolHandling yielding every terminal chunk
SuppressTerminalNever(lastMessage) == FALSE

\* streamWithToolHandling, on the terminal chunk: lastMessage?.tool_calls?.length
SuppressTerminal(lastMessage) == Len(lastMessage.tool_calls) > 0

\* makeRequest: onRequest, then the httpClient call the invocation awaits
MakeRequest ==
  /\ requests' = requests + 1
  /\ round' = round + 1
  /\ roundPartials' = 0
  /\ sentLogs' = Append(sentLogs, messages')
  /\ pc' = "requesting"

\* streamWithToolHandling from the head of its while loop to the next
\* suspension: one more request, or the end of the generator
StreamLoop ==
  IF LoopContinues(iteration, maxToolInterations)
  THEN /\ iteration' = iteration + 1
       /\ MakeRequest
       /\ UNCHANGED <<outcome, errorKind, error>>
  ELSE /\ pc' = "settled"
       /\ outcome' = IF PostLoopThrows(iteration, maxToolInterations)
                     THEN "threw" ELSE "returned"
       /\ errorKind' = IF PostLoopThrows(iteration, maxToolInterations)
                       THEN "max_iterations" ELSE "none"
       /\ error' = IF PostLoopThrows(iteration, maxToolInterations)
                   THEN MaxIterationsError ELSE error
       /\ UNCHANGED <<iteration, requests, round, roundPartials, sentLogs>>

\* handleToolCalls up to `await Promise.all(toolExecutions)`: toolCalls.map
\* starts every executeTool in call order
HandleToolCallsStart(calls) ==
  LET execs == [i \in 1..Len(calls) |-> ExecuteToolStart(calls[i])]
      done  == {i \in 1..Len(calls) : execs[i].state # "running"}
  IN /\ toolExecutions' = execs
     /\ completionOrder' = SelectSeq([i \in 1..Len(calls) |-> i], LAMBDA i : i \in done)
     /\ onToolCallCalls' =
          [id \in 1..(nextCallId + Len(calls) - 1) |->
             IF id < nextCallId THEN onToolCallCalls[id]
             ELSE execs[id - nextCallId + 1].notified]
     /\ nextCallId' = nextCallId + Len(calls)
     /\ pc' = "tools"

\* --------------------------------------------------------------- Micro: Init
InvocationInit ==
  /\ pc = "idle"
  /\ mode = "chat"
  /\ iteration = 0
  /\ toolExecutions = <<>>
  /\ completionOrder = <<>>
  /\ nextCallId = 1
  /\ turns = 0
  /\ round = 0
  /\ roundPartials = 0
  /\ roundCalls = <<>>
  /\ requests = 0
  /\ yielded = <<>>
  /\ onCompleteCalls = 0
  /\ onErrorCalls = 0
  /\ onToolCallCalls = <<>>
  /\ outcome = "none"
  /\ errorKind = "none"
  /\ error = NoError
  /\ onErrorArgs = <<>>
  /\ sentLogs = <<>>
  /\ onMessageCalls = <<>>

\* new Micro({maxToolInterations}): an empty log, no invocation made
MicroInit ==
  /\ messages = <<>>
  /\ maxToolInterations \in 0..MaxIter
  /\ InvocationInit

\* what a new invocation starts from: the caller awaits one invocation
\* before it makes the next
NewInvocation ==
  /\ pc \in {"idle", "settled"}
  /\ turns < MaxTurns
  /\ turns' = turns + 1
  /\ messages' = Append(messages, UserMessage)
  /\ toolExecutions' = <<>>
  /\ roundCalls' = <<>>
  /\ yielded' = <<>>
  /\ onCompleteCalls' = 0
  /\ onErrorCalls' = 0
  /\ onErrorArgs' = <<>>
  /\ onMessageCalls' = Append(onMessageCalls, Len(messages) + 1)
  /\ UNCHANGED <<maxToolInterations, nextCallId, onToolCallCalls, completionOrder>>

\* chat(prompt): setUserMessage, then invoke() up to its await of makeRequest
Chat ==
  /\ NewInvocation
  /\ mode' = "chat"
  /\ iteration' = 0
  /\ requests' = 1
  /\ round' = 1
  /\ roundPartials' = 0
  /\ pc' = "requesting"
  /\ outcome' = "none"
  /\ errorKind' = "none"
  /\ error' = NoError
  /\ sentLogs' = <<messages'>>

\* stream(prompt): setUserMessage, then the generator's first next()
Stream ==
  /\ NewInvocation
  /\ mode' = "stream"
  /\ IF LoopContinues(0, maxToolInterations)
     THEN /\ iteration' = 1
          /\ requests' = 1
          /\ round' = 1
          /\ pc' = "requesting"
          /\ outcome' = "none"
          /\ errorKind' = "none"
          /\ error' = NoError
          /\ sentLogs' = <<messages'>>
     ELSE /\ iteration' = 0
          /\ requests' = 0
          /\ round' = 0
          /\ pc' = "settled"
          /\ outcome' = IF PostLoopThrows(0, maxToolInterations)
                        THEN "threw" ELSE "returned"
          /\ errorKind' = IF PostLoopThrows(0, maxToolInterations)
                          THEN "max_iterations" ELSE "none"
          /\ error' = IF PostLoopThrows(0, maxToolInterations)
                      THEN MaxIterationsError ELSE NoError
          /\ sentLogs' = <<>>
  /\ roundPartials' = 0

\* httpClient rejects: the catch block of invoke() / streamWithToolHandling()
TransportFails ==
  /\ pc = "requesting"
  /\ \E failure \in TransportFailures :
       /\ error' = BuildErrorResponse(HttpError(failure))
       /\ onErrorArgs' = Append(onErrorArgs, BuildErrorResponse(HttpError(failure)))
  /\ onErrorCalls' = onErrorCalls + 1
  /\ outcome' = IF mode = "chat" THEN "rejected" ELSE "threw"
  /\ errorKind' = "transport"
  /\ pc' = "settled"
  /\ UNCHANGED <<messages, maxToolInterations, mode, iteration, toolExecutions,
                 completionOrder, nextCallId, turns, round, roundPartials,
                 roundCalls, requests, yielded, onCompleteCalls, onToolCallCalls,
                 sentLogs, onMessageCalls>>

\* invoke(): the response of a round arrives carrying `calls`
ChatResponds ==
  /\ pc = "requesting"
  /\ mode = "chat"
  /\ \E n \in 0..(MaxToolCalls - (nextCallId - 1)) : \E calls \in CallLists(n) :
       /\ messages' = Append(messages, AssistantMessage(calls))
       /\ roundCalls' = Append(roundCalls, n)
       /\ IF n > 0
          THEN /\ HandleToolCallsStart(calls)
               /\ UNCHANGED <<onCompleteCalls, outcome>>
          ELSE /\ onCompleteCalls' = onCompleteCalls + 1
               /\ outcome' = "resolved"
               /\ pc' = "settled"
               /\ UNCHANGED <<toolExecutions, completionOrder, onToolCallCalls,
                              nextCallId>>
  /\ onMessageCalls' = Append(onMessageCalls, Len(messages) + 1)
  /\ UNCHANGED <<maxToolInterations, mode, iteration, turns, round, roundPartials,
                 requests, yielded, onErrorCalls, errorKind, error, onErrorArgs,
                 sentLogs>>

\* a started tool handler returns or throws; executeTool finishes
HandlerSettles ==
  /\ pc = "tools"
  /\ \E i \in 1..Len(toolExecutions) : \E how \in HandlerOutcomes :
       /\ toolExecutions[i].state = "running"
       /\ LET exec == ExecuteToolSettle(LastToolCalls[i], how)
          IN /\ toolExecutions' = [toolExecutions EXCEPT ![i] = exec]
             /\ onToolCallCalls' =
                  [onToolCallCalls EXCEPT ![LastToolCalls[i].id] = @ + exec.notified]
       /\ completionOrder' = Append(completionOrder, i)
  /\ UNCHANGED <<messages, maxToolInterations, pc, mode, iteration, nextCallId,
                 turns, round, roundPartials, roundCalls, requests, yielded,
                 onCompleteCalls, onErrorCalls, outcome, errorKind, error,
                 onErrorArgs, sentLogs, onMessageCalls>>

\* invoke() with the iteration cap of stream(): no request after
\* maxToolInterations rounds
ToolCallsJoinCapped ==
  /\ pc = "tools"
  /\ \/ \E i \in 1..Len(toolExecutions) : toolExecutions[i].state = "rejected"
     \/ \A i \in 1..Len(toolExecutions) : toolExecutions[i].state = "done"
  /\ IF \E i \in 1..Len(toolExecutions) : toolExecutions[i].state = "rejected"
     THEN /\ onErrorCalls' = onErrorCalls + 1
          /\ onErrorArgs' = Append(onErrorArgs, BuildErrorResponse(HttpError("body")))
          /\ error' = BuildErrorResponse(HttpError("body"))
          /\ outcome' = IF mode = "chat" THEN "rejected" ELSE "threw"
          /\ errorKind' = "tool"
          /\ pc' = "settled"
          /\ UNCHANGED <<messages, iteration, requests, round, roundPartials,
                         sentLogs, onMessageCalls>>
     ELSE /\ messages' = messages \o ToolResults(LastToolCalls, toolExecutions)
          /\ onMessageCalls' = Append(onMessageCalls, Len(messages'))
          /\ onErrorCalls' = onErrorCalls
          /\ onErrorArgs' = onErrorArgs
          /\ IF mode = "chat"
             THEN IF round < maxToolInterations
                  THEN MakeRequest /\ UNCHANGED <<iteration, outcome, errorKind, error>>
                  ELSE /\ pc' = "settled"
                       /\ outcome' = "rejected"
                       /\ errorKind' = "max_iterations"
                       /\ error' = MaxIterationsError
                       /\ UNCHANGED <<iteration, requests, round, roundPartials,
                                      sentLogs>>
             ELSE StreamLoop
  /\ toolExecutions' = <<>>
  /\ UNCHANGED <<maxToolInterations, mode, nextCallId, turns, roundCalls, yielded,
                 onCompleteCalls, onToolCallCalls, completionOrder>>

\* Promise.all(toolExecutions) settles: handleToolCalls pushes the results,
\* then invoke() recurses / streamWithToolHandling() continues its loop;
\* a rejected executeTool promise lands in the caller's catch block
ToolCallsJoin ==
  /\ pc = "tools"
  /\ \/ \E i \in 1..Len(toolExecutions) : toolExecutions[i].state = "rejected"
     \/ \A i \in 1..Len(toolExecutions) : toolExecutions[i].state = "done"
  /\ IF \E i \in 1..Len(toolExecutions) : toolExecutions[i].state = "rejected"
     THEN /\ onErrorCalls' = onErrorCalls + 1
          /\ onErrorArgs' = Append(onErrorArgs, BuildErrorResponse(HttpError("body")))
          /\ error' = BuildErrorResponse(HttpError("body"))
          /\ outcome' = IF mode = "chat" THEN "rejected" ELSE "threw"
          /\ errorKind' = "tool"
          /\ pc' = "settled"
          /\ UNCHANGED <<messages, iteration, requests, round, roundPartials,
                         sentLogs, onMessageCalls>>
     ELSE /\ messages' = messages \o ToolResults(LastToolCalls, toolExecutions)
          /\ onMessageCalls' = Append(onMessageCalls, Len(messages'))
          /\ onErrorCalls' = onErrorCalls
          /\ onErrorArgs' = onErrorArgs
          /\ IF mode = "chat"
             THEN MakeRequest /\ UNCHANGED <<iteration, outcome, errorKind, error>>
             ELSE StreamLoop
  /\ toolExecutions' = <<>>
  /\ UNCHANGED <<maxToolInterations, mode, nextCallId, turns, roundCalls, yielded,
                 onCompleteCalls, onToolCallCalls, completionOrder>>

\* makeRequest(true) resolves: processStream starts reading the body
StreamOpens ==
  /\ pc = "requesting"
  /\ mode = "stream"
  /\ pc' = "reading"
  /\ UNCHANGED <<messages, maxToolInterations, mode, iteration, toolExecutions,
                 completionOrder, nextCallId, turns, round, roundPartials,
                 roundCalls, requests, yielded, onCompleteCalls, onErrorCalls,
                 onToolCallCalls, outcome, errorKind, error, onErrorArgs,
                 sentLogs, onMessageCalls>>

\* processStream yields a partial chunk; streamWithToolHandling yields it on
StreamPartial ==
  /\ pc = "reading"
  /\ roundPartials < MaxPartials
  /\ roundPartials' = roundPartials + 1
  /\ yielded' = Append(yielded, [done |-> FALSE, round |-> round])
  /\ UNCHANGED <<messages, maxToolInterations, pc, mode, iteration, toolExecutions,
                 completionOrder, nextCallId, turns, round, roundCalls, requests,
                 onCompleteCalls, onErrorCalls, onToolCallCalls, outcome, errorKind,
                 error, onErrorArgs, sentLogs, onMessageCalls>>

\* processStream pushing what it has decoded so far when the read fails
StreamReadFailsKeepsPartial ==
  /\ pc = "reading"
  /\ onErrorCalls' = onErrorCalls + 2
  /\ onErrorArgs' = onErrorArgs \o
                      <<BuildErrorResponse(StreamReadError),
                        BuildErrorResponse(BuildErrorResponse(StreamReadError))>>
  /\ error' = BuildErrorResponse(BuildErrorResponse(StreamReadError))
  /\ outcome' = "threw"
  /\ errorKind' = "stream_read"
  /\ pc' = "settled"
  /\ messages' = Append(messages, AssistantMessage(<<>>))
  /\ UNCHANGED <<maxToolInterations, mode, iteration, toolExecutions,
                 completionOrder, nextCallId, turns, round, roundPartials,
                 roundCalls, requests, yielded, onCompleteCalls, onToolCallCalls,
                 sentLogs, onMessageCalls>>

\* reader.read() rejects: the catch block of processStream, then the one of
\* streamWithToolHandling
StreamReadFails ==
  /\ pc = "reading"
  /\ onErrorCalls' = onErrorCalls + 2
  /\ onErrorArgs' = onErrorArgs \o
                      <<BuildErrorResponse(StreamReadError),
                        BuildErrorResponse(BuildErrorResponse(StreamReadError))>>
  /\ error' = BuildErrorResponse(BuildErrorResponse(StreamReadError))
  /\ outcome' = "threw"
  /\ errorKind' = "stream_read"
  /\ pc' = "settled"
  /\ UNCHANGED <<messages, maxToolInterations, mode, iteration, toolExecutions,
                 completionOrder, nextCallId, turns, round, roundPartials,
                 roundCalls, requests, yielded, onCompleteCalls, onToolCallCalls,
                 sentLogs, onMessageCalls>>

\* the stream ends: processStream appends the assistant message, calls
\* onComplete and yields the terminal chunk; streamWithToolHandling yields it
\* to the caller or suppresses it and runs the tool calls
StreamEnds ==
  /\ pc = "reading"
  /\ \E n \in 0..(MaxToolCalls - (nextCallId - 1)) : \E calls \in CallLists(n) :
       /\ messages' = Append(messages, AssistantMessage(calls))
       /\ roundCalls' = Append(roundCalls, n)
       /\ onCompleteCalls' = onCompleteCalls + 1
       /\ IF SuppressTerminal(AssistantMessage(calls))
          THEN /\ yielded' = yielded
               /\ IF calls # <<>>
                  THEN HandleToolCallsStart(calls)
                  ELSE /\ pc' = "tools"
                       /\ UNCHANGED <<toolExecutions, completionOrder,
                                      onToolCallCalls, nextCallId>>
          ELSE /\ yielded' = Append(yielded, [done |-> TRUE, round |-> round])
               /\ pc' = "terminal"
               /\ nextCallId' = nextCallId + n
               /\ UNCHANGED <<toolExecutions, completionOrder, onToolCallCalls>>
  /\ onMessageCalls' = Append(onMessageCalls, Len(messages) + 1)
  /\ UNCHANGED <<maxToolInterations, mode, iteration, turns, round, roundPartials,
                 requests, onErrorCalls, outcome, errorKind, error, onErrorArgs,
                 sentLogs>>

\* the caller asks for the item after the terminal chunk: the for-await loop
\* of streamWithToolHandling ends, `break`, and the check after the loop
StreamResumes ==
  /\ pc = "terminal"
  /\ pc' = "settled"
  /\ outcome' = IF PostLoopThrows(iteration, maxToolInterations)
                THEN "threw" ELSE "returned"
  /\ errorKind' = IF PostLoopThrows(iteration, maxToolInterations)
                  THEN "max_iterations" ELSE "none"
  /\ error' = IF PostLoopThrows(iteration, maxToolInterations)
              THEN MaxIterationsError ELSE error
  /\ UNCHANGED <<messages, maxToolInterations, mode, iteration, toolExecutions,
                 completionOrder, nextCallId, turns, round, roundPartials,
                 roundCalls, requests, yielded, onCompleteCalls, onErrorCalls,
                 onToolCallCalls, onErrorArgs, sentLogs, onMessageCalls>>

MicroNext ==
  \/ Chat /\ UNCHANGED <<mcpVars, streamVars, clientVars, registryVars>>
  \/ Stream /\ UNCHANGED <<mcpVars, streamVars, clientVars, registryVars>>
  \/ TransportFails /\ UNCHANGED <<mcpVars, streamVars, clientVars, registryVars>>
  \/ ChatResponds /\ UNCHANGED <<mcpVars, streamVars, clientVars, registryVars>>
  \/ HandlerSettles /\ UNCHANGED <<mcpVars, streamVars, clientVars, registryVars>>
  \/ ToolCallsJoin /\ UNCHANGED <<mcpVars, streamVars, clientVars, registryVars>>
  \/ StreamOpens /\ UNCHANGED <<mcpVars, streamVars, clientVars, registryVars>>
  \/ StreamPartial /\ UNCHANGED <<mcpVars, streamVars, clientVars, registryVars>>
  \/ StreamReadFails /\ UNCHANGED <<mcpVars, streamVars, clientVars, registryVars>>
  \/ StreamEnds /\ UNCHANGED <<mcpVars, streamVars, clientVars, registryVars>>
  \/ StreamResumes /\ UNCHANGED <<mcpVars, streamVars, clientVars, registryVars>>

\* one Micro client, no MCP client in use
InitMicro == MicroInit /\ McpInit /\ StreamIdle /\ ClientIdle /\ RegistryIdle

SpecMicro == InitMicro /\ [][MicroNext]_vars


\* ----------------------------------------------------------- class MCPClient
Restrict(f, S) == [x \in S |-> f[x]]
Extend(f, k, v) == [x \in DOMAIN f \cup {k} |-> IF x = k THEN v ELSE f[x]]
MinOf(S) == CHOOSE x \in S : \A y \in S : x <= y

\* the promise sendRequest returns, not settled yet
PendingPromise ==
  [state |-> "pending", reason |-> "none", answerTo |-> 0, pendingThen |-> {}]

\* handleMessage: pending.reject(new Error(message.error.message)) or
\* pending.resolve(message.result); answerTo is the request the server
\* computed the carried result (or error) for
SettledByMessage(message) ==
  [state |-> IF message.error THEN "rejected" ELSE "resolved",
   reason |-> IF message.error THEN "error" ELSE "result",
   answerTo |-> message.answerTo, pendingThen |-> {}]

\* sendRequest's timer: reject(new Error(`Request timeout: ${method}`));
\* pendingThen are the requests that stay pending at that moment
SettledByTimeout(others) ==
  [state |-> "rejected", reason |-> "timeout", answerTo |-> 0, pendingThen |-> others]

\* a response line {id, result} or {id, error} the child writes for request r
ResponseLine(r, isError) == [id |-> r.id, answerTo |-> r.id, error |-> isError]

\* correlation taking the oldest pending request instead of the one with
\* the message's id
PendingKeyOldest(message) ==
  IF DOMAIN pendingRequests # {} THEN MinOf(DOMAIN pendingRequests) ELSE 0

\* handleMessage: this.pendingRequests.get(message.id), 0 when there is none
PendingKey(message) ==
  IF message.id \in DOMAIN pendingRequests THEN message.id ELSE 0

\* the timer of request id firing together with every timer armed before it
TimerTargetsOlder(id) == {k \in DOMAIN pendingRequests : k <= id}

\* sendRequest's setTimeout callback: the requests it rejects and removes
TimerTargets(id) == {k \in DOMAIN pendingRequests : k = id}

\* calls that will send a request of their own once their connect() resolves
Reserved ==
  Cardinality({t \in DOMAIN apiCalls :
                 apiCalls[t].pc = "awaitInit" /\ apiCalls[t].op # "connect"})

\* sendRequest(method) on child pid: the next id, the pending entry, the
\* line written to the child's stdin and the 30 s timer
SendRequest(method, pid, alive, pend, proms, tm, inb) ==
  /\ messageId' = messageId + 1
  /\ pendingRequests' = Extend(pend, messageId + 1, [promise |-> messageId + 1])
  /\ promises' = Extend(proms, messageId + 1, PendingPromise)
  /\ timers' = tm \cup {messageId + 1}
  /\ inbox' = IF pid \in alive
              THEN inb \cup {[pid |-> pid, id |-> messageId + 1, method |-> method,
                              half |-> FALSE]}
              ELSE inb

\* the continuations of the calls awaiting promise p once it has settled:
\* connect()'s then-callback sets isInitialized and resolves; listTools() /
\* callTool() go on from `await this.connect()` to their own sendRequest
Resume(p, ok, pend, proms, tm, inb) ==
  LET W == {t \in DOMAIN apiCalls :
              apiCalls[t].req = p /\ apiCalls[t].pc \in {"awaitInit", "awaitResponse"}}
      S == {t \in W : apiCalls[t].pc = "awaitInit" /\ apiCalls[t].op # "connect"}
      inits == {t \in W : apiCalls[t].pc = "awaitInit"}
      settle(c) == [c EXCEPT !.pc = IF ok THEN "resolved" ELSE "rejected",
                             !.ready = IF ok /\ c.pc = "awaitInit" THEN TRUE
                                       ELSE isInitialized]
  IN /\ isInitialized' = IF ok /\ inits # {} THEN TRUE ELSE isInitialized
     /\ IF ok /\ S # {} /\ process # 0
        THEN LET t == CHOOSE t \in S : TRUE
             IN /\ SendRequest(apiCalls[t].op, process, children, pend, proms, tm, inb)
                /\ apiCalls' = [apiCalls EXCEPT ![t] =
                       [@ EXCEPT !.pc = "awaitResponse", !.req = messageId + 1,
                                 !.ready = TRUE]]
        ELSE /\ apiCalls' = [t \in DOMAIN apiCalls |->
                               IF t \in W THEN settle(apiCalls[t]) ELSE apiCalls[t]]
             /\ pendingRequests' = pend
             /\ promises' = proms
             /\ timers' = tm
             /\ inbox' = inb
             /\ UNCHANGED messageId

\* handleMessage without this.pendingRequests.delete(message.id)
HandleMessageKeepsEntry(message, inb) ==
  LET key == PendingKey(message)
  IN IF key = 0
     THEN /\ inbox' = inb
          /\ UNCHANGED <<messageId, pendingRequests, promises, timers,
                         isInitialized, apiCalls>>
     ELSE LET p == pendingRequests[key].promise
          IN IF promises[p].state = "pending"
             THEN Resume(p, ~message.error, pendingRequests,
                         [promises EXCEPT ![p] = SettledByMessage(message)],
                         timers, inb)
             ELSE /\ inbox' = inb
                  /\ UNCHANGED <<messageId, pendingRequests, promises, timers,
                                 isInitialized, apiCalls>>

\* handleMessage(message), for a line JSON.parse accepted
HandleMessage(message, inb) ==
  LET key == PendingKey(message)
  IN IF key = 0
     THEN /\ inbox' = inb
          /\ UNCHANGED <<messageId, pendingRequests, promises, timers,
                         isInitialized, apiCalls>>
     ELSE LET p == pendingRequests[key].promise
              pend == Restrict(pendingRequests, DOMAIN pendingRequests \ {key})
          IN IF promises[p].state = "pending"
             THEN Resume(p, ~message.error, pend,
                         [promises EXCEPT ![p] = SettledByMessage(message)],
                         timers, inb)
             ELSE /\ pendingRequests' = pend
                  /\ inbox' = inb
                  /\ UNCHANGED <<messageId, promises, timers, isInitialized, apiCalls>>

\* cleanup() that also restarts the id counter
CleanupResetsIds ==
  /\ process' = 0
  /\ isInitialized' = FALSE
  /\ pendingRequests' = <<>>
  /\ buffer' = <<>>
  /\ messageId' = 0

\* cleanup() leaving the pending map as it is
CleanupKeepsPending ==
  /\ process' = 0
  /\ isInitialized' = FALSE
  /\ pendingRequests' = pendingRequests
  /\ buffer' = <<>>
  /\ messageId' = messageId

\* cleanup(): the four fields it resets; this.messageId is not one of them
Cleanup ==
  /\ process' = 0
  /\ isInitialized' = FALSE
  /\ pendingRequests' = <<>>
  /\ buffer' = <<>>
  /\ messageId' = messageId

\* connect() with no process: spawn the child and send `initialize`
SpawnAndInitialize(call) ==
  /\ spawned < MaxSpawns
  /\ spawned' = spawned + 1
  /\ process' = spawned + 1
  /\ children' = children \cup {spawned + 1}
  /\ SendRequest("initialize", spawned + 1, children \cup {spawned + 1},
                 pendingRequests, promises, timers, inbox)
  /\ apiCalls' = Append(apiCalls, [call EXCEPT !.pc = "awaitInit",
                                               !.req = messageId + 1])
  /\ UNCHANGED <<buffer, isInitialized, exitPending>>

\* connect()
Connect ==
  /\ Len(apiCalls) < MaxApiCalls
  /\ LET call == [op |-> "connect", pc |-> "resolved", req |-> 0,
                  ready |-> isInitialized]
     IN IF process # 0
        THEN /\ apiCalls' = Append(apiCalls, call)
             /\ UNCHANGED <<process, messageId, pendingRequests, buffer,
                            isInitialized, timers, promises, children, inbox,
                            exitPending, spawned>>
        ELSE /\ messageId + Reserved < MaxRequests
             /\ SpawnAndInitialize(call)

\* listTools() / callTool() up to their first suspension
ApiCall(method) ==
  /\ Len(apiCalls) < MaxApiCalls
  /\ LET call == [op |-> method, pc |-> "awaitResponse", req |-> messageId + 1,
                  ready |-> isInitialized]
     IN IF isInitialized \/ process # 0
        THEN /\ messageId + Reserved < MaxRequests
             /\ SendRequest(method, process, children, pendingRequests, promises,
                            timers, inbox)
             /\ apiCalls' = Append(apiCalls, call)
             /\ UNCHANGED <<process, buffer, isInitialized, children,
                            exitPending, spawned>>
        ELSE /\ messageId + Reserved + 1 < MaxRequests
             /\ SpawnAndInitialize(call)

ListTools == ApiCall("tools/list")

CallTool == ApiCall("tools/call")

\* a running child answers a request it has read; the line reaches
\* handleData in one chunk, or its first part does
ServerResponds ==
  \E r \in inbox : \E isError \in BOOLEAN : \E whole \in BOOLEAN :
    /\ r.pid \in children
    /\ ~\E q \in inbox : q.pid = r.pid /\ q.half
    /\ IF whole
       THEN /\ buffer' = <<>>
            /\ IF buffer = <<>>
               THEN HandleMessage(ResponseLine(r, isError), inbox \ {r})
               ELSE /\ inbox' = inbox \ {r}
                    /\ UNCHANGED <<messageId, pendingRequests, promises, timers,
                                   isInitialized, apiCalls>>
       ELSE /\ isError = FALSE
            /\ buffer' = IF buffer = <<>> THEN <<r.id>> ELSE <<0>>
            /\ inbox' = (inbox \ {r}) \cup {[r EXCEPT !.half = TRUE]}
            /\ UNCHANGED <<messageId, pendingRequests, promises, timers,
                           isInitialized, apiCalls>>
    /\ UNCHANGED <<process, children, exitPending, spawned>>

\* the rest of a line whose first part is in this.buffer arrives: JSON.parse
\* accepts the joined line only when the buffer still holds that first part
ServerFinishesLine ==
  \E r \in inbox : \E isError \in BOOLEAN :
    /\ r.pid \in children
    /\ r.half
    /\ buffer' = <<>>
    /\ IF buffer = <<r.id>>
       THEN HandleMessage(ResponseLine(r, isError), inbox \ {r})
       ELSE /\ inbox' = inbox \ {r}
            /\ UNCHANGED <<messageId, pendingRequests, promises, timers,
                           isInitialized, apiCalls>>
    /\ UNCHANGED <<process, children, exitPending, spawned>>

\* the 30 s timer of request id fires
TimerFires ==
  \E id \in timers :
    /\ LET hit == TimerTargets(id)
           pend == Restrict(pendingRequests, DOMAIN pendingRequests \ hit)
       IN IF hit = {}
          THEN /\ timers' = timers \ {id}
               /\ UNCHANGED <<messageId, pendingRequests, promises, inbox,
                              isInitialized, apiCalls>>
          ELSE Resume(id, FALSE, pend,
                      [k \in DOMAIN promises |->
                         IF k \in hit /\ promises[k].state = "pending"
                         THEN SettledByTimeout(DOMAIN pend) ELSE promises[k]],
                      timers \ {id}, inbox)
    /\ UNCHANGED <<process, buffer, children, exitPending, spawned>>

\* disconnect(): this.process.kill(), then cleanup()
Disconnect ==
  /\ process # 0
  /\ children' = children \ {process}
  /\ inbox' = {r \in inbox : r.pid # process}
  /\ exitPending' = exitPending \cup {process}
  /\ Cleanup
  /\ UNCHANGED <<timers, promises, apiCalls, spawned>>

\* a child process ends on its own
ChildExits ==
  \E pid \in children :
    /\ children' = children \ {pid}
    /\ inbox' = {r \in inbox : r.pid # pid}
    /\ exitPending' = exitPending \cup {pid}
    /\ UNCHANGED <<process, messageId, pendingRequests, buffer, isInitialized,
                   timers, promises, apiCalls, spawned>>

\* the 'exit' event of a child is delivered: cleanup()
ExitEvent ==
  \E pid \in exitPending :
    /\ exitPending' = exitPending \ {pid}
    /\ Cleanup
    /\ UNCHANGED <<timers, promises, children, inbox, apiCalls, spawned>>

McpNext ==
  \/ Connect /\ UNCHANGED <<microVars, streamVars, clientVars, registryVars>>
  \/ ListTools /\ UNCHANGED <<microVars, streamVars, clientVars, registryVars>>
  \/ CallTool /\ UNCHANGED <<microVars, streamVars, clientVars, registryVars>>
  \/ ServerResponds /\ UNCHANGED <<microVars, streamVars, clientVars, registryVars>>
  \/ ServerFinishesLine /\ UNCHANGED <<microVars, streamVars, clientVars, registryVars>>
  \/ TimerFires /\ UNCHANGED <<microVars, streamVars, clientVars, registryVars>>
  \/ Disconnect /\ UNCHANGED <<microVars, streamVars, clientVars, registryVars>>
  \/ ChildExits /\ UNCHANGED <<microVars, streamVars, clientVars, registryVars>>
  \/ ExitEvent /\ UNCHANGED <<microVars, streamVars, clientVars, registryVars>>

\* a Micro client that is constructed and never used
MicroIdle == MicroInit /\ maxToolInterations = MaxIter

InitMCP == MicroIdle /\ McpInit /\ StreamIdle /\ ClientIdle /\ RegistryIdle

\* one MCPClient
SpecMCP == InitMCP /\ [][McpNext]_vars

\* what the event loop and a live server do sooner or later: an armed timer
\* fires, an 'exit' event is delivered, a child that runs answers what it read
McpFairness ==
  /\ WF_vars(TimerFires /\ UNCHANGED <<microVars, streamVars, clientVars, registryVars>>)
  /\ WF_vars(ExitEvent /\ UNCHANGED <<microVars, streamVars, clientVars, registryVars>>)
  /\ WF_vars(ServerResponds /\ UNCHANGED <<microVars, streamVars, clientVars, registryVars>>)
  /\ WF_vars(ServerFinishesLine /\ UNCHANGED <<microVars, streamVars, clientVars, registryVars>>)

\* one MCPClient on a fair event loop
SpecMCPLive == SpecMCP /\ McpFairness

\* ------------------------------------------------------ Micro.processStream
\* a newline; every other piece of the body is <<line kind, part>>, a line
\* being its part 1 (which begins with "data: ") followed by its part 2
NL == <<"\n", 0>>

\* a tool-call delta: index -1 when the delta carries none, "" and <<>> for
\* an id, name or arguments the delta does not carry
ToolCallDelta(index, id, name, arguments) ==
  [index |-> index, id |-> id, name |-> name, arguments |-> arguments]

\* parsed.choices[0].delta and parsed.usage of a frame
Frame(role, content, reasoning, tool_calls, usage) ==
  [role |-> role, content |-> content, reasoning |-> reasoning,
   tool_calls |-> tool_calls, usage |-> usage]

\* the lines a server sends: frames with a role marker, with content (a
\* letter, a blank), with reasoning, with tool-call deltas, with usage only;
\* a line whose payload is not JSON; the [DONE] line
LineKinds ==
  {"role_a", "role_m", "text", "space", "think", "tc0_open", "tc0_more",
   "tc0_retag", "tc1", "tc_noindex", "usage", "bad", "done"}

\* lines whose payload JSON.parse accepts
FrameKinds == LineKinds \ {"bad", "done"}

\* JSON.parse(trimmedLine.slice(6)) for the line of kind k
Payload(k) ==
  CASE k = "role_a" -> Frame("assistant", <<>>, <<>>, <<>>, 0)
    [] k = "role_m" -> Frame("model", <<>>, <<>>, <<>>, 0)
    [] k = "text" -> Frame("", <<"a">>, <<>>, <<>>, 0)
    [] k = "space" -> Frame("", <<" ">>, <<>>, <<>>, 0)
    [] k = "think" -> Frame("", <<>>, <<"r", " ">>, <<>>, 0)
    [] k = "tc0_open" ->
         Frame("", <<>>, <<>>, <<ToolCallDelta(0, "c1", "calc", <<"{">>)>>, 0)
    [] k = "tc0_more" ->
         Frame("", <<>>, <<>>, <<ToolCallDelta(0, "", "", <<"}">>)>>, 0)
    [] k = "tc0_retag" ->
         Frame("", <<>>, <<>>, <<ToolCallDelta(0, "c9", "calc2", <<>>)>>, 0)
    [] k = "tc1" ->
         Frame("", <<>>, <<>>, <<ToolCallDelta(1, "c2", "ghost", <<"[", "]">>)>>, 0)
    [] k = "tc_noindex" ->
         Frame("", <<>>, <<>>, <<ToolCallDelta(-1, "c4", "calc", <<"x">>)>>, 0)
    [] OTHER -> Frame("", <<>>, <<>>, <<>>, 7)

\* the text of the body: every line followed by a newline, the last one only
\* when the body ends with one
RECURSIVE BodyOf(_, _)
BodyOf(lines, ended) ==
  IF lines = <<>> THEN <<>>
  ELSE <<<<Head(lines), 1>>, <<Head(lines), 2>>>>
         \o (IF Len(lines) > 1 \/ ended THEN <<NL>> ELSE <<>>)
         \o BodyOf(Tail(lines), ended)

\* String.prototype.trim on a sequence of characters
RECURSIVE TrimStart(_)
TrimStart(str) ==
  IF str # <<>> /\ Head(str) = " " THEN TrimStart(Tail(str)) ELSE str

RECURSIVE TrimEnd(_)
TrimEnd(str) ==
  IF str # <<>> /\ str[Len(str)] = " "
  THEN TrimEnd(SubSeq(str, 1, Len(str) - 1)) ELSE str

Trim(str) == TrimEnd(TrimStart(str))

\* buffer.split('\n'): the pieces between the newlines, the last one being
\* what follows the last newline
RECURSIVE Split(_, _, _)
Split(text, current, done) ==
  IF text = <<>> THEN Append(done, current)
  ELSE IF Head(text) = NL
  THEN Split(Tail(text), <<>>, Append(done, current))
  ELSE Split(Tail(text), Append(current, Head(text)), done)

\* trimmedLine.startsWith('data: ')
StartsWithData(line) == line # <<>> /\ line[1][2] = 1

\* trimmedLine === 'data: [DONE]'
IsDoneLine(line) == line = <<<<"done", 1>>, <<"done", 2>>>>

\* JSON.parse accepts the payload: the line is a whole line of a frame kind
JSONParsesLine(line) ==
  /\ Len(line) = 2
  /\ line[1][1] \in FrameKinds
  /\ line = <<<<line[1][1], 1>>, <<line[1][1], 2>>>>

\* a slot of the toolCalls array nothing was assigned to
EmptySlot == [id |-> "", name |-> "", arguments |-> <<>>, hole |-> TRUE]

\* the merge of one tool-call delta replacing the arguments collected so far
MergeToolCallReplaces(toolCalls, d) ==
  LET index == IF d.index = -1 THEN Len(toolCalls) ELSE d.index
      pos == index + 1
      created == [id |-> d.id, name |-> d.name, arguments |-> d.arguments,
                  hole |-> FALSE]
  IN IF pos > Len(toolCalls) \/ toolCalls[pos].hole
     THEN [i \in 1..(IF pos > Len(toolCalls) THEN pos ELSE Len(toolCalls)) |->
             IF i = pos THEN created
             ELSE IF i <= Len(toolCalls) THEN toolCalls[i] ELSE EmptySlot]
     ELSE [toolCalls EXCEPT ![pos] =
             [id |-> IF d.id # "" THEN d.id ELSE @.id,
              name |-> IF d.name # "" THEN d.name ELSE @.name,
              arguments |-> IF d.arguments # <<>> THEN d.arguments ELSE @.arguments,
              hole |-> FALSE]]

\* the body of `for (const toolCallDelta of delta.tool_calls)`: the slot at
\* index (toolCalls.length when the delta has none) is created from the
\* delta, or its id / name are overwritten when present and the arguments
\* fragment is appended
MergeToolCall(toolCalls, d) ==
  LET index == IF d.index = -1 THEN Len(toolCalls) ELSE d.index
      pos == index + 1
      created == [id |-> d.id, name |-> d.name, arguments |-> d.arguments,
                  hole |-> FALSE]
  IN IF pos > Len(toolCalls) \/ toolCalls[pos].hole
     THEN [i \in 1..(IF pos > Len(toolCalls) THEN pos ELSE Len(toolCalls)) |->
             IF i = pos THEN created
             ELSE IF i <= Len(toolCalls) THEN toolCalls[i] ELSE EmptySlot]
     ELSE [toolCalls EXCEPT ![pos] =
             [id |-> IF d.id # "" THEN d.id ELSE @.id,
              name |-> IF d.name # "" THEN d.name ELSE @.name,
              arguments |-> IF d.arguments # <<>> THEN @.arguments \o d.arguments
                            ELSE @.arguments,
              hole |-> FALSE]]

RECURSIVE MergeToolCalls(_, _)
MergeToolCalls(toolCalls, deltas) ==
  IF deltas = <<>> THEN toolCalls
  ELSE MergeToolCalls(MergeToolCall(toolCalls, Head(deltas)), Tail(deltas))

\* what processStream does, in order: kind is "yield", "push" (onto
\* this.messages), "onMessage", "onComplete" or "onError"
Effect(kind, event, message) == [kind |-> kind, event |-> event, message |-> message]

NoMessage == [role |-> "", content |-> <<>>, tool_calls |-> <<>>]

\* a chunk processStream yields; role and original are those of the
\* completion a terminal chunk carries
StreamEvent(delta, deltaReasoning, fullContent, done, role, original) ==
  [delta |-> delta, reasoning |-> deltaReasoning, fullContent |-> fullContent,
   done |-> done, role |-> role, original |-> original]

NoEvent == StreamEvent(<<>>, <<>>, <<>>, FALSE, "", <<>>)

\* if (delta?.role) role = delta.role
RoleAfter(st, frame) == IF frame.role # "" THEN frame.role ELSE st.role

\* fullContent = delta.content in place of fullContent += delta.content
ContentAfterReplaces(fullContent, frame) ==
  IF frame.content # <<>> THEN frame.content ELSE fullContent

\* fullContent += delta.content || ''
ContentAfter(fullContent, frame) == fullContent \o frame.content

\* the try block for a frame JSON.parse accepted
ApplyFrame(st, frame) ==
  LET emits == frame.content # <<>> \/ frame.reasoning # <<>>
      content == IF emits THEN ContentAfter(st.fullContent, frame) ELSE st.fullContent
  IN [st EXCEPT
        !.role = RoleAfter(st, frame),
        !.toolCalls = MergeToolCalls(st.toolCalls, frame.tool_calls),
        !.fullContent = content,
        !.reasoning = IF emits THEN @ \o frame.reasoning ELSE @,
        !.out = IF emits
                THEN Append(@, Effect("yield",
                       StreamEvent(frame.content, frame.reasoning, content, FALSE,
                                   "", <<>>), NoMessage))
                ELSE @,
        !.tokensUsed = IF frame.usage # 0 THEN frame.usage ELSE @]

\* the body of `for (const line of lines)`
ApplyLine(st, line) ==
  IF line = <<>> \/ IsDoneLine(line) THEN st
  ELSE IF StartsWithData(line)
  THEN IF JSONParsesLine(line) THEN ApplyFrame(st, Payload(line[1][1])) ELSE st
  ELSE st

\* one try block around the whole `for (const line of lines)` loop: a failing
\* JSON.parse skips the rest of the lines of that read
RECURSIVE ApplyLinesStopsAtBadJSON(_, _)
ApplyLinesStopsAtBadJSON(st, lines) ==
  IF lines = <<>> THEN st
  ELSE IF /\ Head(lines) # <<>>
          /\ ~IsDoneLine(Head(lines))
          /\ StartsWithData(Head(lines))
          /\ ~JSONParsesLine(Head(lines))
  THEN st
  ELSE ApplyLinesStopsAtBadJSON(ApplyLine(st, Head(lines)), Tail(lines))

\* for (const line of lines)
RECURSIVE ApplyLines(_, _)
ApplyLines(st, lines) ==
  IF lines = <<>> THEN st ELSE ApplyLines(ApplyLine(st, Head(lines)), Tail(lines))

\* the read loop starting every read with an empty buffer
ProcessChunkForgetsBuffer(st, value) ==
  LET pieces == Split(value, <<>>, <<>>)
      lines == SubSeq(pieces, 1, Len(pieces) - 1)
  IN ApplyLines([st EXCEPT !.buffer = pieces[Len(pieces)]], lines)

\* one turn of the read loop for a read that delivered value: buffer +=,
\* split, lines.pop() back into buffer, then every whole line
ProcessChunk(st, value) ==
  LET pieces == Split(st.buffer \o value, <<>>, <<>>)
      lines == SubSeq(pieces, 1, Len(pieces) - 1)
  IN ApplyLines([st EXCEPT !.buffer = pieces[Len(pieces)]], lines)

\* the message processStream builds at the end of the stream
StreamMessage(st) ==
  [role |-> st.role, content |-> st.fullContent,
   tool_calls |-> IF Len(st.toolCalls) > 0 THEN st.toolCalls ELSE <<>>]

\* the terminal chunk
TerminalEvent(st) ==
  StreamEvent(<<>>, Trim(st.reasoning), Trim(st.fullContent), TRUE, st.role,
              st.fullContent)

\* the end of the stream with the terminal chunk yielded before the message
\* is pushed
FinishYieldsFirst(st) ==
  [st EXCEPT !.out = @ \o
     <<Effect("yield", TerminalEvent(st), NoMessage),
       Effect("push", NoEvent, StreamMessage(st)),
       Effect("onMessage", NoEvent, StreamMessage(st)),
       Effect("onComplete", TerminalEvent(st), StreamMessage(st))>>]

\* processStream after `if (done) break`: push, onMessage, onComplete, and
\* the terminal chunk
Finish(st) ==
  [st EXCEPT !.out = @ \o
     <<Effect("push", NoEvent, StreamMessage(st)),
       Effect("onMessage", NoEvent, StreamMessage(st)),
       Effect("onComplete", TerminalEvent(st), StreamMessage(st)),
       Effect("yield", TerminalEvent(st), NoMessage)>>]

\* the body processStream is given
Body == BodyOf(sseLines, lastLineEnded)

\* a processStream call on a response whose body is any sequence of lines
StreamInit ==
  /\ sseLines \in UNION {[1..n -> LineKinds] : n \in 0..MaxLines}
  /\ lastLineEnded \in BOOLEAN
  /\ offset = 0
  /\ streamState = StartState
  /\ streamPc = "reading"

\* reader.read() resolves with the next n pieces of the body
ReaderDelivers ==
  /\ streamPc = "reading"
  /\ \E n \in 1..MaxChunk :
       /\ offset + n <= Len(Body)
       /\ offset' = offset + n
       /\ streamState' = ProcessChunk(streamState, SubSeq(Body, offset + 1, offset + n))
  /\ UNCHANGED <<sseLines, lastLineEnded, streamPc>>

\* reader.read() resolves with done: true
ReaderDone ==
  /\ streamPc = "reading"
  /\ offset = Len(Body)
  /\ streamState' = Finish(streamState)
  /\ streamPc' = "ended"
  /\ UNCHANGED <<sseLines, lastLineEnded, offset>>

\* reader.read() rejects: the catch block of processStream
ReaderFails ==
  /\ streamPc = "reading"
  /\ streamState' = [streamState EXCEPT
                       !.out = Append(@, Effect("onError", NoEvent, NoMessage))]
  /\ streamPc' = "failed"
  /\ UNCHANGED <<sseLines, lastLineEnded, offset>>

StreamNext ==
  \/ ReaderDelivers /\ UNCHANGED <<microVars, mcpVars, clientVars, registryVars>>
  \/ ReaderDone /\ UNCHANGED <<microVars, mcpVars, clientVars, registryVars>>
  \/ ReaderFails /\ UNCHANGED <<microVars, mcpVars, clientVars, registryVars>>

InitStream == MicroIdle /\ McpInit /\ StreamInit /\ ClientIdle /\ RegistryIdle

\* one call of processStream
SpecStream == InitStream /\ [][StreamNext]_vars

\* ------------------------------------------------ class Micro, conversation
\* A message with plain text content.  The texts hold no {{placeholder}}, so
\* parseTemplate returns them as they are.
Message(role, text) ==
  [role |-> role, content |-> <<text>>, tool_calls |-> <<>>, tool_call_id |-> 0,
   name |-> ""]

IsSystemMessage(msg) == msg.role = "system"

GetSystemMessage(log) == SelectSeq(log, IsSystemMessage)

GetNonSystemMessages(log) == SelectSeq(log, LAMBDA msg : ~IsSystemMessage(msg))

\* the default of limitMessages' parameter
DefaultLimit == 5

\* takeRight taking from the front: array.slice(0, n)
TakeLeft(array, n) ==
  IF n <= 0 THEN <<>>
  ELSE IF n >= Len(array) THEN array
  ELSE SubSeq(array, 1, n)

\* takeRight(array, n): array.slice(-n) between the two guards
TakeRight(array, n) ==
  IF n <= 0 THEN <<>>
  ELSE IF n >= Len(array) THEN array
  ELSE SubSeq(array, Len(array) - n + 1, Len(array))

\* the log limitMessages(limit) assigns
LimitedMessages(log, limit) ==
  GetSystemMessage(log) \o TakeRight(GetNonSystemMessages(log), limit)

\* the log setSystemPrompt(prompt) leaves
WithSystemPrompt(log, prompt) ==
  IF prompt = "" THEN log
  ELSE IF \E i \in 1..Len(log) : IsSystemMessage(log[i]) THEN log
  ELSE <<Message("system", prompt)>> \o log

\* system prompts a caller may pass ("" for none)
SystemPrompts == {"", "be brief"}

\* lists of messages a caller may pass to the constructor and to setMessages
MessageLists ==
  { <<>>,
    <<Message("user", "a")>>,
    <<Message("system", "old")>>,
    <<Message("system", "old"), Message("user", "a"), Message("assistant", "b")>>,
    <<Message("user", "a"), Message("system", "old")>>,
    <<Message("system", "old"), Message("system", "other")>> }

\* the single tool call of a tool round in an exchange
ExchangeCall == [id |-> 1, name |-> "calc", arguments |-> "{}"]

\* what chat(prompt)/stream(prompt) appends in all: the user message, rounds
\* tool rounds of one call each, and the final answer unless the transport
\* failed before it
Exchange(prompt, rounds, answered) ==
  <<Message("user", prompt)>>
  \o (IF rounds = 1
      THEN <<AssistantMessage(<<ExchangeCall>>),
             ToolMessage(ExchangeCall, HandlerResult("calc", "object"))>>
      ELSE <<>>)
  \o (IF answered THEN <<AssistantMessage(<<>>)>> ELSE <<>>)

\* a public method is called: lastCall remembers it
Called(op, limit) ==
  /\ opsDone < MaxOps
  /\ opsDone' = opsDone + 1
  /\ lastCall' = [op |-> op, limit |-> limit, before |-> messages]

\* onMessage after each of the n messages just appended
NotifiedEach(n) ==
  onMessageCalls' = onMessageCalls \o [i \in 1..n |-> Len(messages) + i]

SetSystemPrompt ==
  \E prompt \in SystemPrompts :
    /\ Called("setSystemPrompt", 0)
    /\ parsedSystemPrompt' = IF prompt = "" THEN parsedSystemPrompt ELSE prompt
    /\ messages' = WithSystemPrompt(messages, prompt)
    /\ UNCHANGED <<onMessageCalls, invocationVars>>

SetUserMessage ==
  \E prompt \in {"a", "b"} :
    /\ Called("setUserMessage", 0)
    /\ messages' = Append(messages, Message("user", prompt))
    /\ NotifiedEach(1)
    /\ UNCHANGED <<parsedSystemPrompt, invocationVars>>

SetAssistantMessage ==
  /\ Called("setAssistantMessage", 0)
  /\ messages' = Append(messages, Message("assistant", "c"))
  /\ NotifiedEach(1)
  /\ UNCHANGED <<parsedSystemPrompt, invocationVars>>

SetMessages ==
  \E list \in MessageLists :
    /\ Called("setMessages", 0)
    /\ messages' = list
    /\ UNCHANGED <<parsedSystemPrompt, onMessageCalls, invocationVars>>

LimitMessages ==
  \E limit \in (-1..MaxLimit) \cup {DefaultLimit} :
    /\ Called("limitMessages", limit)
    /\ messages' = LimitedMessages(messages, limit)
    /\ UNCHANGED <<parsedSystemPrompt, onMessageCalls, invocationVars>>

FlushAllMessages ==
  /\ Called("flushAllMessages", 0)
  /\ messages' = <<>>
  /\ UNCHANGED <<parsedSystemPrompt, onMessageCalls, invocationVars>>

\* chat(prompt) from its call to its settling
ChatExchange ==
  \E rounds \in 0..1, answered \in BOOLEAN :
    /\ Called("chat", 0)
    /\ messages' = messages \o Exchange("a", rounds, answered)
    /\ NotifiedEach(Len(Exchange("a", rounds, answered)))
    /\ UNCHANGED <<parsedSystemPrompt, invocationVars>>

\* stream(prompt) from its call to the end of the generator
StreamExchange ==
  \E rounds \in 0..1, answered \in BOOLEAN :
    /\ Called("stream", 0)
    /\ messages' = messages \o Exchange("b", rounds, answered)
    /\ NotifiedEach(Len(Exchange("b", rounds, answered)))
    /\ UNCHANGED <<parsedSystemPrompt, invocationVars>>

\* new Micro({messages, systemPrompt})
ConversationInit ==
  \E initial \in MessageLists, systemPrompt \in SystemPrompts :
    /\ messages = WithSystemPrompt(initial, systemPrompt)
    /\ parsedSystemPrompt = systemPrompt
    /\ lastCall = [op |-> "new", limit |-> 0, before |-> initial]
    /\ opsDone = 0

restOfClient == <<client, requestBodies, finalMessage, extracted>>

ConversationNext ==
  \/ SetSystemPrompt /\ UNCHANGED <<mcpVars, streamVars, restOfClient, registryVars>>
  \/ SetUserMessage /\ UNCHANGED <<mcpVars, streamVars, restOfClient, registryVars>>
  \/ SetAssistantMessage /\ UNCHANGED <<mcpVars, streamVars, restOfClient, registryVars>>
  \/ SetMessages /\ UNCHANGED <<mcpVars, streamVars, restOfClient, registryVars>>
  \/ LimitMessages /\ UNCHANGED <<mcpVars, streamVars, restOfClient, registryVars>>
  \/ FlushAllMessages /\ UNCHANGED <<mcpVars, streamVars, restOfClient, registryVars>>
  \/ ChatExchange /\ UNCHANGED <<mcpVars, streamVars, restOfClient, registryVars>>
  \/ StreamExchange /\ UNCHANGED <<mcpVars, streamVars, restOfClient, registryVars>>

InitConversation ==
  /\ ConversationInit
  /\ InvocationInit
  /\ maxToolInterations = MaxIter
  /\ client = NewClient(DefaultOptions)
  /\ requestBodies = <<>>
  /\ ReasoningIdle
  /\ McpInit
  /\ StreamIdle
  /\ RegistryIdle

\* one client and the conversation methods its caller calls, one after another
SpecConversation == InitConversation /\ [][ConversationNext]_vars

\* ------------------------------------------- class Micro, extractReasoning
\* The content of a message is a sequence of pieces: a tag, a word or a
\* blank.  The regular expressions of hasTag, stripTag and extractInnerTag
\* carry the i flag, so <THINKING> opens what </thinking> closes.
Pieces ==
  {"<thinking>", "<THINKING>", "</thinking>", "<thought>", "</thought>", "step1", " "}

\* the piece matches <tag>
IsOpenTag(piece, tag) ==
  IF tag = "thinking" THEN piece \in {"<thinking>", "<THINKING>"}
  ELSE piece = "<thought>"

\* the piece matches </tag>
IsCloseTag(piece, tag) ==
  IF tag = "thinking" THEN piece = "</thinking>" ELSE piece = "</thought>"

HasTag(content, tag) == \E i \in 1..Len(content) : IsOpenTag(content[i], tag)

\* both replace calls: every opening and every closing tag goes, the rest stays
StripTag(content, tag) ==
  SelectSeq(content, LAMBDA piece : ~IsOpenTag(piece, tag) /\ ~IsCloseTag(piece, tag))

\* the first match of <tag>(.*?)</tag>: the first opening tag and the first
\* closing tag after it; its group trimmed, '' without a match
ExtractInnerTag(content, tag) ==
  LET opens == {i \in 1..Len(content) : IsOpenTag(content[i], tag)}
      closesAfter(i) == {j \in (i + 1)..Len(content) : IsCloseTag(content[j], tag)}
  IN IF opens = {} \/ closesAfter(MinOf(opens)) = {}
     THEN <<>>
     ELSE Trim(SubSeq(content, MinOf(opens) + 1, MinOf(closesAfter(MinOf(opens))) - 1))

ExtractReasoning(message) ==
  LET reasoning == IF message.reasoning # <<>> THEN message.reasoning
                   ELSE message.reasoning_content
      content == message.content
  IN IF HasTag(content, "thinking")
     THEN [reasoning |-> ExtractInnerTag(content, "thinking"),
           content |-> StripTag(content, "thinking")]
     ELSE IF HasTag(content, "thought")
     THEN [reasoning |-> ExtractInnerTag(content, "thought"),
           content |-> StripTag(content, "thought")]
     ELSE [reasoning |-> reasoning, content |-> content]

\* final assistant messages a model may send: any content, with or without
\* the reasoning fields (<<>> for undefined or '')
FinalMessages ==
  [content : UNION {[1..n -> Pieces] : n \in 0..MaxContent},
   reasoning : {<<>>, <<"because">>},
   reasoning_content : {<<>>, <<"since">>}]

\* invoke on a response without tool calls: extractReasoning, then the
\* completion buildResponse makes of its result
BuildResponse ==
  /\ ~extracted.done
  /\ extracted' = [done |-> TRUE,
                   reasoning |-> Trim(ExtractReasoning(finalMessage).reasoning),
                   content |-> Trim(ExtractReasoning(finalMessage).content)]
  /\ UNCHANGED <<finalMessage, client, parsedSystemPrompt, lastCall, opsDone,
                 requestBodies>>

ReasoningInit ==
  /\ finalMessage \in FinalMessages
  /\ extracted = NoExtraction

ReasoningNext ==
  BuildResponse /\ UNCHANGED <<microVars, mcpVars, streamVars, registryVars>>

InitReasoning ==
  /\ MicroIdle
  /\ McpInit
  /\ StreamIdle
  /\ client = NewClient(DefaultOptions)
  /\ ConversationIdle
  /\ requestBodies = <<>>
  /\ ReasoningInit
  /\ RegistryIdle

\* one final message turned into the completion of a Response
SpecReasoning == InitReasoning /\ [][ReasoningNext]_vars

\* ------------------------------------------- class Micro, buildRequestBody
\* A request body is a function from the keys it has to their values;
\* body[key] = value is Extend(body, key, value).
\* delete body[key]
Delete(body, key) == Restrict(body, DOMAIN body \ {key})

\* { ...body, ...override }
Spread(body, override) ==
  [key \in DOMAIN body \cup DOMAIN override |->
     IF key \in DOMAIN override THEN override[key] ELSE body[key]]

\* tool.schema of a registered tool
ToolSchema(toolName) == [type |-> "function", name |-> toolName]

ThinkingBudget(level) ==
  CASE level = "minimal" -> 2048
    [] level = "low" -> 4096
    [] level = "medium" -> 8192
    [] OTHER -> 16384

\* applyReasoningConfig deleting the client's own maxTokens along with
\* body.max_tokens
ApplyReasoningConfigForgetsMaxTokens(this, body) ==
  IF this.capabilities.isOpenAIReasoning
  THEN LET withEffort == Extend(body, "reasoning_effort", this.reasoning_effort)
       IN IF this.maxTokens # <<>> /\ this.maxTokens[1] # 0
          THEN [body |-> Delete(Extend(withEffort, "max_completion_tokens",
                                    this.maxTokens[1]), "max_tokens"),
                this |-> [this EXCEPT !.maxTokens = <<>>]]
          ELSE [body |-> withEffort, this |-> this]
  ELSE IF this.capabilities.isGemini25Reasoning
  THEN [body |-> Extend(body, "extra_body",
                     [google |-> [thinking_config |->
                        [thinking_budget |->
                           ThinkingBudget(OrElse(this.reasoning_effort, "medium")),
                         include_thoughts |-> TRUE]]]),
        this |-> this]
  ELSE IF this.capabilities.isGLMReasoning
  THEN [body |-> Extend(body, "thinking", [type |-> "enabled"]), this |-> this]
  ELSE [body |-> body, this |-> this]

\* applyReasoningConfig(body): the body it leaves and the client it leaves
ApplyReasoningConfig(this, body) ==
  IF this.capabilities.isOpenAIReasoning
  THEN LET withEffort == Extend(body, "reasoning_effort", this.reasoning_effort)
       IN IF this.maxTokens # <<>> /\ this.maxTokens[1] # 0
          THEN [body |-> Delete(Extend(withEffort, "max_completion_tokens",
                                    this.maxTokens[1]), "max_tokens"),
                this |-> this]
          ELSE [body |-> withEffort, this |-> this]
  ELSE IF this.capabilities.isGemini25Reasoning
  THEN [body |-> Extend(body, "extra_body",
                     [google |-> [thinking_config |->
                        [thinking_budget |->
                           ThinkingBudget(OrElse(this.reasoning_effort, "medium")),
                         include_thoughts |-> TRUE]]]),
        this |-> this]
  ELSE IF this.capabilities.isGLMReasoning
  THEN [body |-> Extend(body, "thinking", [type |-> "enabled"]), this |-> this]
  ELSE [body |-> body, this |-> this]

\* buildRequestBody configuring reasoning for every reasoning model, whether
\* or not reasoning is enabled
BuildRequestBodyAlwaysConfigures(this, log, enableStream) ==
  LET start == [model |-> this.model, messages |-> log,
                stream |-> (enableStream \/ this.streamEnabled)]
      withTemperature ==
        IF this.temperature # <<>>
        THEN Extend(start, "temperature", this.temperature[1]) ELSE start
      withMaxTokens ==
        IF this.maxTokens # <<>> /\ this.maxTokens[1] # 0
        THEN Extend(withTemperature, "max_tokens", this.maxTokens[1])
        ELSE withTemperature
      withTools ==
        IF this.tools # <<>> /\ Len(this.tools[1]) > 0
        THEN LET schemas == Extend(withMaxTokens, "tools",
                                [i \in 1..Len(this.tools[1]) |-> ToolSchema(this.tools[1][i])])
             IN IF this.tool_choice # <<>>
                THEN Extend(schemas, "tool_choice", this.tool_choice[1]) ELSE schemas
        ELSE withMaxTokens
      configured ==
        IF this.capabilities.isReasoningModel
        THEN ApplyReasoningConfig(this, withTools)
        ELSE [body |-> withTools, this |-> this]
  IN [body |-> IF this.override # <<>>
               THEN Spread(configured.body, this.override[1])
               ELSE configured.body,
      this |-> configured.this]

\* buildRequestBody(enableStream) on the client this with the log log: the
\* body it returns and the client it leaves
BuildRequestBody(this, log, enableStream) ==
  LET start == [model |-> this.model, messages |-> log,
                stream |-> (enableStream \/ this.streamEnabled)]
      withTemperature ==
        IF this.temperature # <<>>
        THEN Extend(start, "temperature", this.temperature[1]) ELSE start
      withMaxTokens ==
        IF this.maxTokens # <<>> /\ this.maxTokens[1] # 0
        THEN Extend(withTemperature, "max_tokens", this.maxTokens[1])
        ELSE withTemperature
      withTools ==
        IF this.tools # <<>> /\ Len(this.tools[1]) > 0
        THEN LET schemas == Extend(withMaxTokens, "tools",
                                [i \in 1..Len(this.tools[1]) |-> ToolSchema(this.tools[1][i])])
             IN IF this.tool_choice # <<>>
                THEN Extend(schemas, "tool_choice", this.tool_choice[1]) ELSE schemas
        ELSE withMaxTokens
      configured ==
        IF this.reasoning /\ this.capabilities.isReasoningModel
        THEN ApplyReasoningConfig(this, withTools)
        ELSE [body |-> withTools, this |-> this]
  IN [body |-> IF this.override # <<>>
               THEN Spread(configured.body, this.override[1])
               ELSE configured.body,
      this |-> configured.this]

\* makeRequest builds the body of a request
BuildsRequestBody ==
  \E enableStream \in BOOLEAN :
    /\ Len(requestBodies) < MaxBuilds
    /\ requestBodies' =
         Append(requestBodies,
                [enableStream |-> enableStream,
                 body |-> BuildRequestBody(client, messages, enableStream).body])
    /\ client' = BuildRequestBody(client, messages, enableStream).this
    /\ UNCHANGED <<messages, parsedSystemPrompt, lastCall, opsDone, finalMessage,
                   extracted, onMessageCalls, invocationVars>>

\* new Micro(options)
RequestInit ==
  /\ client \in {NewClient(options) : options \in OptionSets}
  /\ requestBodies = <<>>

RequestNext ==
  \/ BuildsRequestBody /\ UNCHANGED <<mcpVars, streamVars, registryVars>>
  \/ /\ SetAssistantMessage
     /\ requestBodies' = <<>>
     /\ UNCHANGED <<mcpVars, streamVars, client, finalMessage, extracted,
                    registryVars>>

InitRequest ==
  /\ MicroIdle
  /\ McpInit
  /\ StreamIdle
  /\ RequestInit
  /\ ConversationIdle
  /\ ReasoningIdle
  /\ RegistryIdle

\* one client, the request bodies it builds and the changes of its log
SpecRequest == InitRequest /\ [][RequestNext]_vars

\* ------------------------------------------ createMCPTools, createMCPTool
\* the tool lists a server may answer tools/list with
ServerToolLists == {<<>>, <<"fetch">>, <<"fetch", "time">>}

\* the toolNames argument: <<>> when it is left out, <<names>> otherwise
ToolNameFilters == {<<>>, << <<"fetch">> >>, << <<"search">> >>}

\* toolNames ? mcpTools.filter(tool => toolNames.includes(tool.name)) : mcpTools
ToolsToCreate(mcpTools, toolNames) ==
  IF toolNames = <<>> THEN mcpTools
  ELSE SelectSeq(mcpTools,
                 LAMBDA name : \E i \in 1..Len(toolNames[1]) : toolNames[1][i] = name)

\* the elements of a list
Range(list) == {list[i] : i \in 1..Len(list)}

\* the call ends: what it leaves is remembered with it
Settled(call, how, nowRunning, nowActive) ==
  [call EXCEPT !.pc = how,
               !.childRunning = call.client \in nowRunning,
               !.registered = call.client \in Range(nowActive)]

\* createMCPTools(config, toolNames), or createMCPTool(config, toolName)
\* calling it with [toolName]: new MCPClient(config), then connect() spawns
\* the child and sends `initialize`
CreateMCPTools ==
  \E via \in {"createMCPTools", "createMCPTool"}, toolNames \in ToolNameFilters :
    /\ Len(createCalls) < MaxCreates
    /\ via = "createMCPTool" => toolNames # <<>>
    /\ createCalls' = Append(createCalls,
                             [via |-> via, toolNames |-> toolNames,
                              client |-> Len(createCalls) + 1, pc |-> "connecting",
                              childRunning |-> FALSE, registered |-> FALSE])
    /\ running' = running \cup {Len(createCalls) + 1}
    /\ UNCHANGED activeMCPClients

\* `await client.connect()` resolves: listTools() sends tools/list
ConnectResolves ==
  \E k \in DOMAIN createCalls :
    /\ createCalls[k].pc = "connecting"
    /\ k \in running
    /\ createCalls' = [createCalls EXCEPT ![k].pc = "listing"]
    /\ UNCHANGED <<activeMCPClients, running>>

\* connect() or listTools() rejects (an error event, an error response, the
\* timeout): the catch block disconnects the client and throws
CallRejects ==
  \E k \in DOMAIN createCalls :
    /\ createCalls[k].pc \in {"connecting", "listing"}
    /\ running' = running \ {k}
    /\ createCalls' = [createCalls EXCEPT
                         ![k] = Settled(@, "threw", running \ {k}, activeMCPClients)]
    /\ UNCHANGED activeMCPClients

\* `await client.listTools()` resolves with the server's list
ListToolsResolves ==
  \E k \in DOMAIN createCalls, mcpTools \in ServerToolLists :
    /\ createCalls[k].pc = "listing"
    /\ k \in running
    /\ IF ToolsToCreate(mcpTools, createCalls[k].toolNames) = <<>>
       THEN \* return [] before the client is tracked; createMCPTool then
            \* throws `MCP tool "${toolName}" not found`
            /\ createCalls' = [createCalls EXCEPT
                 ![k] = Settled(@, IF @.via = "createMCPTool" THEN "threw" ELSE "returned",
                                running, activeMCPClients)]
            /\ UNCHANGED activeMCPClients
       ELSE /\ activeMCPClients' = Append(activeMCPClients, k)
            /\ createCalls' = [createCalls EXCEPT
                 ![k] = Settled(@, "returned", running, Append(activeMCPClients, k))]
    /\ UNCHANGED running

\* the child of a client ends on its own
ServerExits ==
  \E k \in running :
    /\ running' = running \ {k}
    /\ UNCHANGED <<activeMCPClients, createCalls>>

\* disconnectAllMCPClients(): cleanupMCPClients empties the list and
\* disconnects every client that was in it
DisconnectAllMCPClients ==
  /\ activeMCPClients # <<>>
  /\ activeMCPClients' = <<>>
  /\ running' = running \ Range(activeMCPClients)
  /\ UNCHANGED createCalls

RegistryNext ==
  \/ CreateMCPTools /\ UNCHANGED <<microVars, mcpVars, streamVars, clientVars>>
  \/ ConnectResolves /\ UNCHANGED <<microVars, mcpVars, streamVars, clientVars>>
  \/ CallRejects /\ UNCHANGED <<microVars, mcpVars, streamVars, clientVars>>
  \/ ListToolsResolves /\ UNCHANGED <<microVars, mcpVars, streamVars, clientVars>>
  \/ ServerExits /\ UNCHANGED <<microVars, mcpVars, streamVars, clientVars>>
  \/ DisconnectAllMCPClients /\ UNCHANGED <<microVars, mcpVars, streamVars, clientVars>>

InitRegistry == MicroIdle /\ McpInit /\ StreamIdle /\ ClientIdle /\ RegistryIdle

\* the module of the MCP tool factories and the calls made to it
SpecRegistry == InitRegistry /\ [][RegistryNext]_vars

\* ------------------------------------------------------------------ claims
\* the rounds of the running invocation that have ended
FinishedRounds == 1..Len(roundCalls)

\* the positions of the terminal (done = true) events the caller received
TerminalEvents == {i \in 1..Len(yielded) : yielded[i].done}

\* C1: every assistant message with N >= 1 tool calls is followed, before
\* anything else is appended (so before any later user message), by exactly N
\* tool messages, the i-th with the id of the i-th call, whatever order the
\* handlers settled in; until then handleToolCalls is still waiting.
C1_ToolResultsInCallOrder ==
  \A k \in 1..Len(messages) :
    LET m == messages[k]
        N == Len(m.tool_calls)
    IN (m.role = "assistant" /\ N >= 1) =>
         \/ /\ k = Len(messages)
            /\ pc = "tools"
         \/ /\ Len(messages) >= k + N
            /\ \A i \in 1..N :
                 /\ messages[k + i].role = "tool"
                 /\ messages[k + i].tool_call_id = m.tool_calls[i].id
            /\ Len(messages) > k + N => messages[k + N + 1].role # "tool"

\* C1 witness: two handlers settled in the reverse of call order, their two
\* results are in the log and a later user message has been appended.
C1_Witness ==
  /\ completionOrder = <<2, 1>>
  /\ \E k \in 1..Len(messages) :
       /\ Len(messages[k].tool_calls) = 2
       /\ Len(messages) >= k + 3
       /\ messages[k + 1].tool_call_id = messages[k].tool_calls[1].id
       /\ messages[k + 2].tool_call_id = messages[k].tool_calls[2].id
       /\ \E j \in (k + 3)..Len(messages) : messages[j].role = "user"

\* C2 (as claimed): a stream() invocation with no transport failure whose
\* last round carried no tool calls ends cleanly: the terminal event of that
\* round is the last item and the generator completes without throwing.
C2_StreamEndsCleanly ==
  ( /\ mode = "stream"
    /\ pc = "settled"
    /\ errorKind \notin {"transport", "stream_read", "tool"}
    /\ roundCalls # <<>>
    /\ roundCalls[Len(roundCalls)] = 0 )
  => /\ outcome = "returned"
     /\ yielded # <<>>
     /\ yielded[Len(yielded)].done
     /\ yielded[Len(yielded)].round = Len(roundCalls)

\* C3: a stream() invocation sends at most maxToolInterations requests, and
\* when every one of maxToolInterations rounds returned tool calls it has
\* failed with the max-iterations error without a further request.
C3_StreamRequestsBounded ==
  mode = "stream" =>
    /\ requests <= maxToolInterations
    /\ ( /\ pc = "settled"
         /\ Len(roundCalls) = maxToolInterations
         /\ \A r \in FinishedRounds : roundCalls[r] > 0 )
       => /\ outcome = "threw"
          /\ errorKind = "max_iterations"
          /\ requests = maxToolInterations

\* C3 witness: two rounds, both with tool calls, under maxToolInterations = 2
\* ended in the max-iterations error.
C3_Witness ==
  /\ mode = "stream"
  /\ pc = "settled"
  /\ maxToolInterations = 2
  /\ roundCalls = <<1, 1>>
  /\ requests = 2
  /\ errorKind = "max_iterations"

\* C4: in stream(), a terminal event the caller received is the last event
\* received and comes from a round without tool calls (the terminal event of
\* a tool-calling round is suppressed); an invocation that ended without
\* error delivered exactly one.
C4_OneTerminalEvent ==
  mode = "stream" =>
    /\ \A i \in TerminalEvents :
         /\ i = Len(yielded)
         /\ yielded[i].round \in FinishedRounds
         /\ roundCalls[yielded[i].round] = 0
    /\ outcome = "returned" => Cardinality(TerminalEvents) = 1

\* C4 witness: a stream() that went through a tool-calling round ended
\* without error, its one terminal event coming from round two.
C4_Witness ==
  /\ mode = "stream"
  /\ outcome = "returned"
  /\ Len(roundCalls) = 2
  /\ roundCalls[1] > 0
  /\ yielded[Len(yielded)] = [done |-> TRUE, round |-> 2]

\* C5 (as claimed): an invocation that succeeded called onComplete exactly
\* once, however many tool-calling rounds it went through.
C5_OnCompleteOnce ==
  outcome \in {"resolved", "returned"} => onCompleteCalls = 1

\* C6 (as claimed): every event the caller of stream() received belongs to a
\* round that carried no tool calls.
C6_NoEventFromToolRound ==
  mode = "stream" =>
    \A i \in 1..Len(yielded) :
      yielded[i].round \in FinishedRounds => roundCalls[yielded[i].round] = 0

C9_ResponseSettlesOwnRequest ==
  \A id \in DOMAIN promises :
    promises[id].reason \in {"result", "error"} => promises[id].answerTo = id

\* C9 witness: with two requests pending at once, the response to the later
\* one came first and resolved it, the earlier one still pending.
C9_Witness ==
  \E a \in DOMAIN promises : \E b \in DOMAIN promises :
    /\ a < b
    /\ promises[a].state = "pending"
    /\ a \in DOMAIN pendingRequests
    /\ promises[b].state = "resolved"
    /\ promises[b].answerTo = b

\* C10: when the timer of a request that is still pending fires, that request
\* alone is rejected and removed; the child process, its handle, and every
\* other pending request and promise stay as they were, and a request that
\* was pending then is afterwards settled only by the response to its own id.
C10_TimeoutRejectsOnlyItsRequest ==
  [][ /\ \A id \in timers :
           (id \notin timers' /\ id \in DOMAIN pendingRequests) =>
             /\ DOMAIN pendingRequests' = DOMAIN pendingRequests \ {id}
             /\ \A k \in DOMAIN pendingRequests' :
                  pendingRequests'[k] = pendingRequests[k]
             /\ promises'[id].state = "rejected"
             /\ promises'[id].reason = "timeout"
             /\ \A k \in DOMAIN promises \ {id} : promises'[k] = promises[k]
             /\ process' = process
             /\ children' = children
             /\ inbox' = inbox
             /\ isInitialized' = isInitialized
      /\ \A a \in DOMAIN promises : \A k \in promises[a].pendingThen :
           promises'[k].reason \in {"result", "error"} => promises'[k].answerTo = k
    ]_vars

\* C10 witness: a request timed out while another was pending, the child is
\* still running and the other request was later resolved by its response.
C10_Witness ==
  \E a \in DOMAIN promises : \E k \in promises[a].pendingThen :
    /\ promises[a].reason = "timeout"
    /\ promises[k].state = "resolved"
    /\ promises[k].answerTo = k
    /\ process # 0
    /\ process \in children

\* C11: over the life of one client ids only grow: an entry is put into the
\* pending map only under an id larger than every id issued before (so no id
\* is issued twice, reconnects included), the ids issued are 1..messageId,
\* and the pending map holds entries of issued ids only.
C11_IdsNeverReused ==
  [][ /\ messageId' >= messageId
      /\ DOMAIN promises = 1..messageId
      /\ DOMAIN pendingRequests \subseteq 1..messageId
      /\ \A id \in DOMAIN pendingRequests' \ DOMAIN pendingRequests :
           /\ id > messageId
           /\ id = messageId'
           /\ id \notin DOMAIN promises
      /\ \A id \in DOMAIN promises' \ DOMAIN promises : id = messageId + 1
    ]_vars

\* C11 witness: after a reconnect (a second child) the request sent to the
\* second child is pending under a larger id than the one sent to the first.
C11_Witness ==
  /\ spawned = 2
  /\ process = 2
  /\ messageId >= 2
  /\ messageId \in DOMAIN pendingRequests
  /\ \E r \in inbox : r.pid = 2 /\ r.id = messageId
  /\ 1 \in DOMAIN promises
  /\ 1 \notin DOMAIN pendingRequests

\* C12: a promise that is settled stays as it was settled and has no pending
\* entry; a timer firing for a request that is no longer pending, and a
\* response arriving for one, change no promise, no pending entry and no
\* waiting call.
C12_SettledAtMostOnce ==
  [][ /\ \A id \in DOMAIN promises :
           promises[id].state # "pending" =>
             /\ promises'[id] = promises[id]
             /\ id \notin DOMAIN pendingRequests
      /\ \A id \in timers :
           (id \notin timers' /\ id \notin DOMAIN pendingRequests) =>
             /\ promises' = promises
             /\ pendingRequests' = pendingRequests
             /\ apiCalls' = apiCalls
      /\ \A r \in inbox :
           (r \notin inbox' /\ children' = children
              /\ r.id \notin DOMAIN pendingRequests) =>
             /\ promises' = promises
             /\ pendingRequests' = pendingRequests
             /\ apiCalls' = apiCalls
    ]_vars

\* C12 witness: a request was resolved by its response and its timer fired
\* afterwards; another one was rejected by its timer and the child, still
\* running, has answered it since.
C12_Witness ==
  /\ \E a \in DOMAIN promises :
       /\ promises[a].reason = "result"
       /\ a \notin timers
  /\ \E b \in DOMAIN promises :
       /\ promises[b].reason = "timeout"
       /\ spawned = 1
       /\ children = {1}
       /\ buffer = <<>>
       /\ ~\E r \in inbox : r.id = b

\* C13 (as claimed): a connect() call that has resolved found the client
\* Ready: the response to `initialize` had been received.
C13_ConnectResolvesReady ==
  \A t \in DOMAIN apiCalls :
    (apiCalls[t].op = "connect" /\ apiCalls[t].pc = "resolved") => apiCalls[t].ready

\* C14: disconnect() and the delivery of a child's 'exit' event leave the
\* pending map and the line buffer empty and the client Disconnected
\* whatever was in flight; a promise that is pending without a pending entry
\* (an orphan) stays pending in every later step, a firing timer included.
C14_DisconnectOrphansPending ==
  [][ /\ ( \/ process # 0 /\ process' = 0
           \/ \E pid \in exitPending : pid \notin exitPending' )
         => /\ pendingRequests' = <<>>
            /\ buffer' = <<>>
            /\ process' = 0
            /\ isInitialized' = FALSE
      /\ \A id \in DOMAIN promises :
           (promises[id].state = "pending" /\ id \notin DOMAIN pendingRequests) =>
             promises'[id] = promises[id]
    ]_vars

\* C14 witness: a request was pending when the client was disconnected; its
\* timer has fired since and its promise is still pending.
C14_Witness ==
  \E id \in DOMAIN promises :
    /\ promises[id].state = "pending"
    /\ id \notin DOMAIN pendingRequests
    /\ id \notin timers
    /\ process = 0


\* what the processStream call has done so far, and parts of it
Out == streamState.out

Partials == SelectSeq(Out, LAMBDA e : e.kind = "yield" /\ ~e.event.done)

Terminals == SelectSeq(Out, LAMBDA e : e.kind = "yield" /\ e.event.done)

Pushes == SelectSeq(Out, LAMBDA e : e.kind = "push")

PositionsOf(kind) == {i \in 1..Len(Out) : Out[i].kind = kind}

RECURSIVE Flatten(_)
Flatten(seqs) == IF seqs = <<>> THEN <<>> ELSE Head(seqs) \o Flatten(Tail(seqs))

\* the lines of the body that end with a newline, and the frames, tool-call
\* deltas and role markers they carry
EndedLines ==
  IF lastLineEnded THEN sseLines ELSE SubSeq(sseLines, 1, Len(sseLines) - 1)

SentFrames ==
  [i \in 1..Len(SelectSeq(EndedLines, LAMBDA k : k \in FrameKinds)) |->
     Payload(SelectSeq(EndedLines, LAMBDA k : k \in FrameKinds)[i])]

SentDeltas == Flatten([i \in 1..Len(SentFrames) |-> SentFrames[i].tool_calls])

SentRoles == SelectSeq([i \in 1..Len(SentFrames) |-> SentFrames[i].role],
                       LAMBDA r : r # "")

RECURSIVE LastNonEmpty(_)
LastNonEmpty(strs) ==
  IF strs = <<>> THEN ""
  ELSE IF strs[Len(strs)] # "" THEN strs[Len(strs)]
  ELSE LastNonEmpty(SubSeq(strs, 1, Len(strs) - 1))

\* C15: when a processStream call has reached the end of its stream, the
\* content deltas of its partial events, concatenated in emission order and
\* trimmed, are the terminal event's fullContent, and the reasoning deltas,
\* concatenated and trimmed, are the terminal event's reasoning.
C15_DeltasAddUpToTerminal ==
  streamPc = "ended" =>
    /\ Len(Terminals) = 1
    /\ Trim(Flatten([i \in 1..Len(Partials) |-> Partials[i].event.delta]))
         = Terminals[1].event.fullContent
    /\ Trim(Flatten([i \in 1..Len(Partials) |-> Partials[i].event.reasoning]))
         = Terminals[1].event.reasoning

\* C15 witness: a finished stream with three partial events whose deltas add
\* up to content and reasoning that trimming shortens.
C15_Witness ==
  /\ streamPc = "ended"
  /\ Len(Partials) = 3
  /\ Flatten([i \in 1..Len(Partials) |-> Partials[i].event.delta]) = <<" ", "a">>
  /\ Terminals[1].event.fullContent = <<"a">>
  /\ Terminals[1].event.reasoning = <<"r">>

C17_ChunkingDoesNotMatter ==
  streamPc \in {"reading", "ended"} =>
    LET oneRead == ProcessChunk(StartState, SubSeq(Body, 1, offset))
    IN streamState = IF streamPc = "ended" THEN Finish(oneRead) ELSE oneRead

\* C17 witness: a read ended in the middle of the second line, after the
\* first line had produced its partial event.
C17_Witness ==
  /\ streamPc = "reading"
  /\ Len(streamState.buffer) = 1
  /\ Len(Partials) = 1
  /\ offset = 4
  /\ Len(sseLines) >= 2
  /\ sseLines[2] = "text"

\* C18: a stream with `data: ` lines whose payload is not JSON ends as the
\* stream without those lines does: same partial events, same tool calls,
\* same appended message, same terminal event.
C18_BadJSONSkipped ==
  streamPc = "ended" =>
    LET kept == SelectSeq(sseLines, LAMBDA k : k # "bad")
        ended == lastLineEnded \/ sseLines[Len(sseLines)] = "bad"
        without == Finish(ProcessChunk(StartState, BodyOf(kept, ended)))
    IN /\ Out = without.out
       /\ streamState.toolCalls = without.toolCalls
       /\ streamState.fullContent = without.fullContent
       /\ streamState.reasoning = without.reasoning
       /\ streamState.role = without.role

\* C18 witness: a stream with a bad payload between a content frame and a
\* tool-call frame ended with the partial event of the one and the tool call
\* of the other.
C18_Witness ==
  /\ streamPc = "ended"
  /\ sseLines = <<"text", "bad", "tc0_open">>
  /\ lastLineEnded
  /\ Len(Partials) = 1
  /\ Len(streamState.toolCalls) = 1

\* C19: a processStream call that reached the end of its stream has pushed
\* exactly one message, carrying the accumulated tool calls if and only if a
\* tool-call delta was received, and the push and its onMessage come before
\* the terminal event, which is the last thing the call does; a call still
\* reading has pushed nothing.
C19_OneMessageBeforeTerminal ==
  /\ streamPc = "reading" => Pushes = <<>>
  /\ streamPc = "ended" =>
       /\ Len(Pushes) = 1
       /\ Pushes[1].message.tool_calls =
            (IF SentDeltas # <<>> THEN streamState.toolCalls ELSE <<>>)
       /\ SentDeltas # <<>> <=> Pushes[1].message.tool_calls # <<>>
       /\ Out[Len(Out)].kind = "yield"
       /\ Out[Len(Out)].event.done
       /\ \A i \in PositionsOf("push") : \A j \in PositionsOf("onMessage") :
            i < j /\ j < Len(Out)
       /\ Cardinality(PositionsOf("onMessage")) = 1

\* C19 witness: a finished stream that carried a tool-call delta and content:
\* its one message holds the tool call.
C19_Witness ==
  /\ streamPc = "ended"
  /\ Len(Partials) >= 1
  /\ Len(Pushes) = 1
  /\ Len(Pushes[1].message.tool_calls) = 1
  /\ Pushes[1].message.tool_calls[1].id = "c1"

\* C20 (as claimed): the role of the appended message and of the terminal
\* event's completion is the one of the first frame that carried a role.
C20_FirstRoleWins ==
  (streamPc = "ended" /\ SentRoles # <<>>) =>
    /\ Pushes[1].message.role = SentRoles[1]
    /\ Terminals[1].event.role = SentRoles[1]

\* C21 (as claimed): an invocation that failed has notified onError, its
\* last notification carrying the classified error the caller then received.
C21_FailureNotifiesOnError ==
  outcome \in {"rejected", "threw"} =>
    /\ onErrorArgs # <<>>
    /\ onErrorArgs[Len(onErrorArgs)] = error
    /\ error.type \in {"timeout", "api_error"}

C23_LogGrowsByOneRound ==
  mode = "chat" =>
    /\ Len(sentLogs) = requests
    /\ \A k \in 1..(Len(sentLogs) - 1) :
         LET before == sentLogs[k]
             after == sentLogs[k + 1]
             answer == after[Len(before) + 1]
             N == Len(answer.tool_calls)
         IN /\ Len(after) > Len(before)
            /\ SubSeq(after, 1, Len(before)) = before
            /\ answer.role = "assistant"
            /\ N >= 1
            /\ Len(after) = Len(before) + 1 + N
            /\ \A i \in 1..N :
                 /\ after[Len(before) + 1 + i].role = "tool"
                 /\ after[Len(before) + 1 + i].tool_call_id = answer.tool_calls[i].id
                 /\ after[Len(before) + 1 + i].name = answer.tool_calls[i].name

\* C23 witness: the second request of a chat() went out after a round of two
\* tool calls whose handlers settled in reverse order.
C23_Witness ==
  /\ mode = "chat"
  /\ Len(sentLogs) = 2
  /\ completionOrder = <<2, 1>>
  /\ Len(sentLogs[2]) = Len(sentLogs[1]) + 3

\* C24: chat()/invoke() sends the next request after every tool round,
\* whatever maxToolInterations is, and settles only on a response without
\* tool calls or on a transport failure.
C24_ChatHasNoRoundBound ==
  [][ /\ (mode = "chat" /\ pc = "tools" /\ pc' # "tools") =>
           /\ pc' = "requesting"
           /\ requests' = requests + 1
      /\ (mode = "chat" /\ mode' = "chat" /\ pc # "settled" /\ pc' = "settled") =>
           /\ pc = "requesting"
           /\ \/ outcome' = "resolved" /\ roundCalls'[Len(roundCalls')] = 0
              \/ outcome' = "rejected" /\ errorKind' = "transport"
    ]_vars

\* C24 witness: a client with maxToolInterations = 1 whose chat() went
\* through two tool rounds and three requests before it resolved.
C24_Witness ==
  /\ mode = "chat"
  /\ maxToolInterations = 1
  /\ requests = 3
  /\ roundCalls = <<1, 1, 0>>
  /\ outcome = "resolved"

\* C27 (as claimed): for every message of the log onMessage was called when
\* that message was the last one: after its append and before the next.
C27_OnMessageAfterEveryAppend ==
  \A k \in 1..Len(messages) :
    \E c \in 1..Len(onMessageCalls) : onMessageCalls[c] = k

\* C25 (as claimed): the log holds at most one system message, and a system
\* message it holds is its first entry.
C25_OneSystemMessageFirst ==
  \A i \in 1..Len(messages) : IsSystemMessage(messages[i]) => i = 1

\* C26: limitMessages(n) leaves the system messages of the log, in order,
\* followed by the last min(n, k) of its k other messages, in order (none
\* when n is negative).
C26_LimitKeepsSystemAndLastN ==
  lastCall.op = "limitMessages" =>
    LET system == GetSystemMessage(lastCall.before)
        others == GetNonSystemMessages(lastCall.before)
        k == Len(others)
        n == lastCall.limit
        kept == IF n < 0 THEN 0 ELSE IF n < k THEN n ELSE k
    IN /\ Len(messages) = Len(system) + kept
       /\ \A i \in 1..Len(system) : messages[i] = system[i]
       /\ \A i \in 1..kept : messages[Len(system) + i] = others[k - kept + i]

\* C26 witness: limitMessages(2) on a log of a system message and three
\* other messages dropped the oldest of the three.
C26_Witness ==
  /\ lastCall.op = "limitMessages"
  /\ lastCall.limit = 2
  /\ Len(GetSystemMessage(lastCall.before)) = 1
  /\ Len(GetNonSystemMessages(lastCall.before)) = 3
  /\ Len(messages) = 3
  /\ messages[2] # lastCall.before[2]

\* where the tags of a kind stand in a content
OpenTags(content, tag) == {i \in 1..Len(content) : IsOpenTag(content[i], tag)}
CloseTags(content, tag) == {i \in 1..Len(content) : IsCloseTag(content[i], tag)}
TagKinds == {"thinking", "thought"}

\* C28 (as claimed): when the content of the final message holds one
\* well-formed region of a tag kind and no other tag, and the message has no
\* explicit reasoning, the completion's reasoning is the text inside the
\* region and its content is the content without the region.
C28_RegionBecomesReasoning ==
  \A tag \in TagKinds :
    LET content == finalMessage.content
        other == CHOOSE t \in TagKinds : t # tag
    IN ( /\ extracted.done
         /\ finalMessage.reasoning = <<>>
         /\ finalMessage.reasoning_content = <<>>
         /\ Cardinality(OpenTags(content, tag)) = 1
         /\ Cardinality(CloseTags(content, tag)) = 1
         /\ OpenTags(content, other) \cup CloseTags(content, other) = {}
         /\ \E i \in OpenTags(content, tag) : \E j \in CloseTags(content, tag) : i < j )
       => LET i == CHOOSE x \in OpenTags(content, tag) : TRUE
              j == CHOOSE x \in CloseTags(content, tag) : TRUE
          IN /\ extracted.reasoning = Trim(SubSeq(content, i + 1, j - 1))
             /\ extracted.content =
                  Trim(SubSeq(content, 1, i - 1) \o SubSeq(content, j + 1, Len(content)))

\* C29 (as claimed): when the content holds an opening tag and no closing
\* tag at all, the completion's content is the message's content and its
\* reasoning is the explicit reasoning of the message, if any.
C29_UnterminatedTagUntouched ==
  ( /\ extracted.done
    /\ \E tag \in TagKinds : OpenTags(finalMessage.content, tag) # {}
    /\ \A tag \in TagKinds : CloseTags(finalMessage.content, tag) = {} )
  => /\ extracted.content = Trim(finalMessage.content)
     /\ extracted.reasoning =
          Trim(IF finalMessage.reasoning # <<>> THEN finalMessage.reasoning
               ELSE finalMessage.reasoning_content)

\* C30: the bodies built for the same kind of request while nothing
\* changed are equal, and building a body changes neither the log nor a
\* field of the client.
C30_BuildIsRepeatable ==
  /\ [](\A i, j \in 1..Len(requestBodies) :
          requestBodies[i].enableStream = requestBodies[j].enableStream
            => requestBodies[i].body = requestBodies[j].body)
  /\ [][Len(requestBodies') = Len(requestBodies) + 1
          => client' = client /\ messages' = messages]_vars

\* C30 witness: two bodies were built for the same kind of request by a
\* client of an OpenAI reasoning model with maxTokens set, after its log had
\* changed; the second carries max_completion_tokens.
C30_Witness ==
  /\ Len(requestBodies) = 2
  /\ requestBodies[1].enableStream = requestBodies[2].enableStream
  /\ "max_completion_tokens" \in DOMAIN requestBodies[2].body
  /\ "max_tokens" \notin DOMAIN requestBodies[2].body
  /\ messages # <<>>

\* the reasoning blocks a request body carries
ReasoningBlocks(body) ==
  {key \in {"reasoning_effort", "extra_body", "thinking"} : key \in DOMAIN body}

\* C31: a body built by a client without override carries at most one of
\* the three reasoning blocks, and none when reasoning is disabled or the
\* model is not a reasoning model.
C31_AtMostOneReasoningBlock ==
  client.override = <<>> =>
    \A i \in 1..Len(requestBodies) :
      /\ Cardinality(ReasoningBlocks(requestBodies[i].body)) <= 1
      /\ (~client.reasoning \/ ~client.capabilities.isReasoningModel)
           => ReasoningBlocks(requestBodies[i].body) = {}

\* C31 witness: a client without override whose model id carries the
\* markers of two families built a body, and the body has the OpenAI block
\* alone; maxTokens went into max_completion_tokens.
C31_Witness ==
  /\ client.override = <<>>
  /\ client.capabilities.isOpenAIReasoning
  /\ client.capabilities.isGLMReasoning
  /\ client.reasoning
  /\ Len(requestBodies) = 1
  /\ ReasoningBlocks(requestBodies[1].body) = {"reasoning_effort"}
  /\ "max_completion_tokens" \in DOMAIN requestBodies[1].body

\* the substrings that mark a reasoning family
FamilyMarkers ==
  { <<"g", "p", "t", "-", "5">>, <<"o", "1">>, <<"o", "3">>, <<"o", "4">>,
    <<"g", "e", "m", "i", "n", "i", "-", "2", ".", "5">>,
    <<"g", "l", "m", "-", "4", ".">>, <<"q", "w", "q">>,
    <<"d", "e", "e", "p", "s", "e", "e", "k", "-", "r", "e", "a", "s", "o", "n", "e", "r">>,
    <<"d", "e", "e", "p", "s", "e", "e", "k", "-", "r", "1">>,
    <<"q", "w", "e", "n", "3">>, <<"-", "m", "2">> }

\* C32: the capabilities of a client are those of its model id in lower
\* case; a model id with no family marker is no reasoning model and has no
\* dialect flag, a model id with a marker is a reasoning model, 'o3-mini'
\* has the OpenAI dialect and 'gemini-2.5' the thinking-budget dialect.
C32_DetectionTotalCaseInsensitive ==
  LET caps == client.capabilities
      matched == \E marker \in FamilyMarkers : Includes(ToLowerCase(client.model), marker)
  IN /\ caps.isReasoningModel \in BOOLEAN
     /\ caps.isReasoningModel = matched
     /\ ~matched => ~caps.isOpenAIReasoning /\ ~caps.isGemini25Reasoning
                    /\ ~caps.isGLMReasoning
     /\ client.model = <<"o", "3", "-", "m", "i", "n", "i">> => caps.isOpenAIReasoning
     /\ client.model = <<"g", "e", "m", "i", "n", "i", "-", "2", ".", "5">>
          => caps.isGemini25Reasoning /\ ~caps.isOpenAIReasoning

\* C32 witness: a client whose model id is written in capitals was detected
\* as an OpenAI reasoning model and built its body in that dialect.
C32_Witness ==
  /\ client.model = <<"G", "P", "T", "-", "5">>
  /\ client.capabilities.isOpenAI5
  /\ client.capabilities.isReasoningModel
  /\ client.reasoning
  /\ client.override = <<>>
  /\ Len(requestBodies) = 1
  /\ "reasoning_effort" \in DOMAIN requestBodies[1].body

\* C33 (as claimed): a tools/list or tools/call request is never in front of
\* a child whose initialize request is still unanswered.
C33_NoToolRequestBeforeInitialized ==
  \A r \in inbox :
    r.method # "initialize" =>
      ~\E q \in inbox : q.pid = r.pid /\ q.method = "initialize"

\* C34 (as claimed): every running child the client spawned is the one its
\* process handle refers to.
C34_RunningChildIsReferenced ==
  \A pid \in children : process = pid

\* C35 (as claimed): a call that awaits a connect() promise stops awaiting
\* it: the promise is resolved or rejected.
C35_ConnectSettles ==
  \A t \in 1..MaxApiCalls :
    (t \in DOMAIN apiCalls /\ apiCalls[t].pc = "awaitInit")
      ~> (t \in DOMAIN apiCalls /\ apiCalls[t].pc # "awaitInit")

\* C36 (as claimed): an invocation has notified onError at most once.
C36_OnErrorAtMostOnce == onErrorCalls <= 1 /\ Len(onErrorArgs) <= 1

\* C37: when a round fails on the transport or on reading the stream, the
\* log is the log its request was built from, and no terminal event of that
\* round was yielded.
C37_FailedRoundAppendsNothing ==
  (pc = "settled" /\ errorKind \in {"transport", "stream_read"}) =>
    /\ sentLogs # <<>>
    /\ messages = sentLogs[Len(sentLogs)]
    /\ \A i \in TerminalEvents : yielded[i].round # round

\* C37 witness: the second round of a stream failed while its body was
\* read, after a partial chunk of that round had been yielded.
C37_Witness ==
  /\ mode = "stream"
  /\ errorKind = "stream_read"
  /\ round = 2
  /\ Len(sentLogs) = 2
  /\ \E i \in 1..Len(yielded) : yielded[i].round = 2 /\ ~yielded[i].done

\* every tool message of the log comes after an assistant message whose
\* tool_calls hold its tool_call_id
ToolCallsPaired(log) ==
  \A i \in 1..Len(log) :
    log[i].role = "tool" =>
      \E j \in 1..(i - 1) :
        /\ log[j].role = "assistant"
        /\ \E c \in 1..Len(log[j].tool_calls) :
             log[j].tool_calls[c].id = log[i].tool_call_id

\* C38 (as claimed): limitMessages on a log whose tool messages are paired
\* with their assistant messages leaves a log whose tool messages are.
C38_LimitKeepsToolPairing ==
  (lastCall.op = "limitMessages" /\ ToolCallsPaired(lastCall.before))
    => ToolCallsPaired(messages)

\* C39 (as claimed): when the client has a system prompt, the log of the
\* first request of chat()/stream(), which is the log before the call and
\* the user message, begins with a system message holding that prompt.
C39_SystemPromptHeadsSentLog ==
  (lastCall.op \in {"chat", "stream"} /\ parsedSystemPrompt # "") =>
    LET sent == lastCall.before \o <<Message("user", "a")>>
    IN sent[1] = Message("system", parsedSystemPrompt)

\* C40 (as claimed): when a call of createMCPTools or createMCPTool has
\* returned or thrown, the child it spawned was stopped or its client was in
\* activeMCPClients.
C40_SpawnedChildIsTracked ==
  \A k \in DOMAIN createCalls :
    (createCalls[k].pc \in {"returned", "threw"} /\ createCalls[k].childRunning)
      => createCalls[k].registered

=============================================================================
